---- MODULE Spec2Model ----
(***************************************************************************)
(* Pump Bot Worker: the trade-authorization engine (pump_trading.py), the  *)
(* connection loop, the dispatch of inbound frames and their handlers      *)
(* (worker_app.py).                                                        *)
(*                                                                         *)
(* Amounts (amount_sol, the size limits, the daily volume) are counted in  *)
(* one unit U.  Wallet balances are counted in tenths of U, the finest     *)
(* grain at which `balance < amount_sol * 1.1` changes its value for a     *)
(* whole number of U; the rounding of the floating-point product at that   *)
(* boundary is not followed.  Delays are counted in seconds.               *)
(*                                                                         *)
(* The single control-flow task is followed from suspension point to       *)
(* suspension point: pc names the await it is parked at.                   *)
(***************************************************************************)
EXTENDS Integers, Sequences, FiniteSets, TLC

VARIABLES
    config,                 \* WorkerConfig: the settings the core reads
    today,                  \* datetime.now(timezone.utc).date(), as a day number
    trading_keypair,        \* TradingEngine.trading_keypair is set (not None)
    daily_volume_used,      \* TradingEngine.daily_volume_used
    last_reset_day,         \* TradingEngine.last_reset_day
    trade_stats,            \* TradingEngine.trade_stats
    is_running,             \* WorkerApp.is_running
    websocket,              \* WorkerApp.websocket: "none", "open" or "closed"
    reconnect_attempts,     \* WorkerApp.reconnect_attempts
    max_reconnect_attempts, \* WorkerApp.max_reconnect_attempts
    stats,                  \* WorkerApp.stats (the counters)
    pc,                     \* the await the control-flow task is parked at
    cmd,                    \* the pump_command being handled
    result,                 \* the TradeResult of the command being handled
    attempt,                \* _wait_for_confirmation: the loop variable (0 outside it)
    retry_delay,            \* connect_to_coordinator: the local retry_delay
    outbox,                 \* the frames handed to websocket.send, in order
    waits,                  \* the asyncio.sleep delays of the current connect call
    failures,               \* connection failures in a row in the current connect call
    connections,            \* transports opened so far
    ncmds,                  \* pump_commands received so far
    cur,                    \* what the handling of cmd has done so far (history)
    shared_key,             \* WorkerApp.shared_key: NoKey, or the session key
    coordinator_public_key, \* WorkerApp.coordinator_public_key: NoKey, or a key
    wallets,                \* WorkerApp.wallets: the pairs <<index, private key>>
    frame,                  \* the inbound frame taken last where frames are
                            \* followed, and the fault its processing ended
                            \* with (history)
    registered_on,          \* the connection a registration_success last came on (history)
    nframes,                \* inbound frames other than pump_commands so far
    codec,                  \* one message on its way through _send_message and
                            \* back through _process_message
    resources,              \* http_client, solana_client, trading_engine and the
                            \* worker status of the metrics
    stopper                 \* the shutdown() task of the signal handler: the await
                            \* it is parked at, the calls that returned at the
                            \* is_running test, and the release sequences begun
                            \* by any caller

vars == <<config, today, trading_keypair, daily_volume_used, last_reset_day,
          trade_stats, is_running, websocket, reconnect_attempts,
          max_reconnect_attempts, stats, pc, cmd, result, attempt, retry_delay,
          outbox, waits, failures, connections, ncmds, cur, shared_key,
          coordinator_public_key, wallets, frame, registered_on, nframes,
          codec, resources, stopper>>

engineVars == <<daily_volume_used, last_reset_day, trade_stats>>
connVars == <<is_running, reconnect_attempts, max_reconnect_attempts,
              retry_delay, waits, failures, connections>>
frameVars == <<coordinator_public_key, wallets, frame, registered_on, nframes,
               codec, resources>>
sessionVars == <<shared_key, coordinator_public_key, wallets, frame, registered_on,
                 nframes, codec, resources>>
sessionRest == <<shared_key, coordinator_public_key, wallets, frame, registered_on,
                 nframes, codec>>

(***************************************************************************)
(* Bounds of the model.                                                    *)
(***************************************************************************)
MaxCmds == 2        \* pump_commands received in one behaviour
MaxSize == 3        \* largest configured trade size; amounts go one beyond
MaxDay == 1         \* days the clock may advance
MaxWaits == 10      \* backoff sleeps followed in one connect_to_coordinator call
MaxConnections == 2 \* transports opened in one behaviour
MaxFrames == 2      \* inbound frames of any kind in one behaviour of the worker
MaxSends == 2       \* messages followed through the codec in one behaviour
MaxSignals == 2     \* signals that find the worker already stopping

\* _wait_for_confirmation(self, tx_id, max_retries: int = 30)
max_retries == 30

TokenAddresses == {"", "TOKEN1"}
Amounts == 0..(MaxSize + 1)
MinTradeSizes == {1, 2}
DailyLimits == {MaxSize + 1}
RetryDelays == {1, 2}
BackoffFactors == {1, 2}
ReconnectLimits == {3, 10}

\* Keys are told apart by name: "pk" and "pk2" are well-formed X25519 public
\* keys of the coordinator, "garbage" a string that is none; "k" is the session
\* key derived from "pk", "k2" that derived from "pk2", "other" any other key.
NoKey == "none"
PublicKeys == {"pk", "pk2", "garbage"}
ValidPublicKeys == {"pk", "pk2"}
WalletIndices == {0, 1}

\* The balances worth telling apart for one amount, in tenths of U: nothing,
\* just below, exactly at and just above amount_sol * 1.1.
BalanceChoices(amount_sol) ==
    {b \in {0, amount_sol * 11 - 1, amount_sol * 11, amount_sol * 11 + 1} : b >= 0}

\* status of a transaction as get_signature_status reports it at one poll
PollOutcomes == {"pending", "confirmed", "confirmed_err", "err", "rpc_error"}

NoCommand == [token_address |-> "", amount_sol |-> 0, command_id |-> 0]
NoResult == [success |-> FALSE, transaction_id |-> "unset",
             error_message |-> "unset", amount_sol |-> 0]

NoStats == [total_trades |-> 0, successful_trades |-> 0, failed_trades |-> 0,
            total_volume_sol |-> 0]

\* self.stats as __init__ leaves it (start_time and errors are not followed);
\* last_heartbeat is None, or the day it was set on
NoHeartbeat == -1
NoTraffic == [messages_sent |-> 0, messages_received |-> 0, trades_executed |-> 0,
              last_heartbeat |-> NoHeartbeat]

\* no frame taken yet
NoFrame == [wire |-> "none", envelope |-> "none", type |-> "none", offers |-> NoKey,
            wallet_index |-> 0, sealed_key |-> NoKey, wallet_key |-> "none",
            fault |-> "none"]

\* nothing on its way through the codec; sends counts the messages sent, used
\* holds the <<key, nonce>> of every encryption so far (history)
NoCodec == [phase |-> "idle", message |-> "none", key |-> NoKey, nonce |-> <<>>,
            sealed |-> <<>>, wire |-> <<>>, decoded |-> "none", fault |-> "none",
            sends |-> 0, used |-> {}]

\* __init__: no client and no engine yet; the worker status is not set
NoResources == [http_client |-> "none", solana_client |-> "none",
                trading_engine |-> "none", status |-> "none"]

\* after initialize(): the clients are open, the engine runs
Initialized_Resources == [http_client |-> "open", solana_client |-> "open",
                          trading_engine |-> "running", status |-> "initialized"]

\* after connect_to_coordinator has returned True, and after a
\* registration_success
Connected_Resources == [Initialized_Resources EXCEPT !.status = "connected"]
Registered_Resources == [Initialized_Resources EXCEPT !.status = "registered"]

\* no signal has been handled and no release sequence begun
NoStopper == [task |-> "none", returned |-> 0, sequences |-> 0]

NoCur == [phase |-> "none", used_at_entry |-> 0, reset_at_entry |-> 0,
          day_at_check |-> -1, used_at_check |-> -1,
          balance |-> -1, balance_failed |-> FALSE,
          built |-> FALSE, submitted |-> FALSE,
          results |-> 0, stats_at_entry |-> NoStats, sent_at_entry |-> 0,
          conn_at_entry |-> <<FALSE, "none">>, done |-> FALSE,
          last_poll |-> "none"]


(***************************************************************************)
(* TradingEngine: the validation sequence of execute_pump_trade and        *)
(* _check_trade_limits.                                                    *)
(***************************************************************************)

\* `if not token_address`
TokenMissing(token_address) == token_address = ""

\* variant: the wallet check is skipped
WalletMissing_Skipped == FALSE

\* `if not self.trading_keypair`
WalletMissing == ~trading_keypair

\* `if current_date > self.last_reset_day`
NeedsDailyReset(current_date) == current_date > last_reset_day

\* variant: the upper size bound taken as exclusive
ExceedsMaxTradeSize_Exclusive(amount_sol) == amount_sol >= config.max_trade_size_sol

\* `if amount_sol > self.config.max_trade_size_sol`
ExceedsMaxTradeSize(amount_sol) == amount_sol > config.max_trade_size_sol

\* `if amount_sol < self.config.min_trade_size_sol`
BelowMinTradeSize(amount_sol) == amount_sol < config.min_trade_size_sol

\* variant: the volume already used is left out of the limit check
ExceedsDailyLimit_IgnoresUsed(used, amount_sol) ==
    amount_sol > config.daily_trade_limit_sol

\* `if self.daily_volume_used + amount_sol > self.daily_volume_limit`
\* (daily_volume_limit is config.daily_trade_limit_sol, copied at construction)
ExceedsDailyLimit(used, amount_sol) ==
    used + amount_sol > config.daily_trade_limit_sol

\* variant: the balance compared with the bare amount, without the margin
InsufficientBalance_NoMargin(balance, amount_sol) == balance < amount_sol * 10

\* `if balance < amount_sol * 1.1`, the balance in tenths of U
InsufficientBalance(balance, amount_sol) == balance < amount_sol * 11

\* _get_wallet_balance: the gateway's answer, or 0.0 when the query raises
WalletBalance(ok, value) == IF ok THEN value ELSE 0

\* a client answers only while it is open: a request on a closed client raises
Answers(client, ok) == ok => client = "open"

\* The part of _check_trade_limits that runs before its await: the daily
\* reset, then the size checks, then the daily limit.
ResetUsed(current_date) ==
    IF NeedsDailyReset(current_date) THEN 0 ELSE daily_volume_used
ResetDay(current_date) ==
    IF NeedsDailyReset(current_date) THEN current_date ELSE last_reset_day

LimitVerdict(amount_sol, current_date) ==
    IF ExceedsMaxTradeSize(amount_sol) THEN "size_max"
    ELSE IF BelowMinTradeSize(amount_sol) THEN "size_min"
    ELSE IF ExceedsDailyLimit(ResetUsed(current_date), amount_sol) THEN "daily_limit"
    ELSE "ok"

\* The TradeResult built by the except branch of execute_pump_trade
FailedResult(command, message) ==
    [success |-> FALSE, transaction_id |-> "none", error_message |-> message,
     amount_sol |-> command.amount_sol]

\* The TradeResult built by _execute_real_trade after confirmation
RealResult(command) ==
    [success |-> TRUE, transaction_id |-> "tx", error_message |-> "none",
     amount_sol |-> command.amount_sol]

\* variant: the mock trade's transaction id is a gateway signature
MockResult_RealId(command) ==
    [success |-> TRUE, transaction_id |-> "tx", error_message |-> "none",
     amount_sol |-> command.amount_sol]

\* The TradeResult built by _mock_trade: transaction id f"mock_{...}"
MockResult(command) ==
    [success |-> TRUE, transaction_id |-> "mock_", error_message |-> "none",
     amount_sol |-> command.amount_sol]

\* _update_trade_stats (the running average of execution times is not followed)
UpdateTradeStats(ts, res) ==
    [ts EXCEPT !.total_trades = @ + 1,
               !.successful_trades = IF res.success THEN @ + 1 ELSE @,
               !.total_volume_sol =
                   IF res.success /\ res.amount_sol # 0 THEN @ + res.amount_sol ELSE @,
               !.failed_trades = IF res.success THEN @ ELSE @ + 1]

\* `self.daily_volume_used += amount_sol` in _execute_real_trade
AddDailyVolume(used, amount_sol) == used + amount_sol

(***************************************************************************)
(* WorkerApp: the frames it sends.                                         *)
(***************************************************************************)
\* variant: a connection opens with a status report instead of the register
RegisterMessage_Status ==
    [type |-> "worker_status", command_id |-> 0, success |-> FALSE]

\* the registration_message of _send_registration
RegisterMessage == [type |-> "register", command_id |-> 0, success |-> FALSE]

\* variant: the response does not echo the command's id
PumpResultMessage_NoId(command, res) ==
    [type |-> "pump_result", command_id |-> 0, success |-> res.success]

\* the response of _handle_pump_command after execute_pump_trade returned
PumpResultMessage(command, res) ==
    [type |-> "pump_result", command_id |-> command.command_id,
     success |-> res.success]

\* the error_response of _handle_pump_command's except branch
PumpErrorMessage(command) ==
    [type |-> "pump_error", command_id |-> command.command_id, success |-> FALSE]

\* A send that never looks at the transport (a variant of CanSend).
CanSend_Always == TRUE

\* variant: every send raises, whatever the state of the transport
CanSend_Never == FALSE

\* _send_message: `if not self.websocket or self.websocket.closed: raise`;
\* websocket.send raises as well once the connection is closed
CanSend == websocket = "open"

\* variant: every message goes out as it is
Envelope_Plain(key) == "plain"

\* _send_message: `if self.config.encryption_enabled and self.shared_key` the
\* message is wrapped in {"type": "encrypted", "data": ...}
Envelope(key) ==
    IF config.encryption_enabled /\ key # NoKey THEN "encrypted" ELSE "plain"

\* what websocket.send is given: the message, and the envelope it goes in;
\* self.websocket is the transport opened last
Framed(message, key) ==
    [envelope |-> Envelope(key), connection |-> connections] @@ message

(***************************************************************************)
(* The pump_command path: message_handler -> _process_message ->           *)
(* _handle_pump_command -> execute_pump_trade, cut at its awaits.          *)
(***************************************************************************)

\* execute_pump_trade returns `res` without reaching the gateway: the handler
\* goes on to send the response.
Reject(command, message, entry) ==
    /\ result' = FailedResult(command, message)
    /\ cur' = [entry EXCEPT !.phase = "rejected", !.results = 1]
    /\ pc' = "send_result"

\* A pump_command frame arrives (a frame received before the transport closed
\* is still delivered): _process_message counts it and dispatches it;
\* execute_pump_trade runs up to the balance query of _check_trade_limits.
\* run() enters the receive loop only after initialize() has built the engine,
\* so the `not self.trading_engine` branch of the handler is not taken.
TakePumpCommand ==
    /\ pc = "recv"
    /\ websocket # "none"
    /\ ncmds < MaxCmds
    /\ \E token_address \in TokenAddresses, amount_sol \in Amounts :
        LET command == [token_address |-> token_address, amount_sol |-> amount_sol,
                        command_id |-> ncmds + 1]
            entry == [NoCur EXCEPT !.phase = "validating",
                                   !.used_at_entry = daily_volume_used,
                                   !.reset_at_entry = last_reset_day,
                                   !.stats_at_entry = trade_stats,
                                   !.sent_at_entry = Len(outbox),
                                   !.conn_at_entry = <<is_running, websocket>>]
            checked == [entry EXCEPT !.day_at_check = today,
                                     !.used_at_check = ResetUsed(today)]
            verdict == LimitVerdict(amount_sol, today)
        IN  /\ cmd' = command
            /\ ncmds' = ncmds + 1
            /\ stats' = [stats EXCEPT !.messages_received = @ + 1]
            /\ IF TokenMissing(token_address)
               THEN /\ Reject(command, "token_missing", entry)
                    /\ UNCHANGED <<daily_volume_used, last_reset_day>>
               ELSE IF WalletMissing
               THEN /\ Reject(command, "no_wallet", entry)
                    /\ UNCHANGED <<daily_volume_used, last_reset_day>>
               ELSE /\ daily_volume_used' = ResetUsed(today)
                    /\ last_reset_day' = ResetDay(today)
                    /\ IF verdict # "ok"
                       THEN Reject(command, verdict, checked)
                       ELSE /\ cur' = checked
                            /\ pc' = "balance"
                            /\ result' = NoResult
    /\ UNCHANGED <<config, stopper, today, trading_keypair, trade_stats, websocket, attempt,
                   outbox>>
    /\ UNCHANGED connVars

\* a pump_command where only the commands are followed
ReceivePumpCommand ==
    /\ TakePumpCommand
    /\ UNCHANGED sessionVars

\* solana_client.get_balance returns (or raises): the last check of
\* _check_trade_limits, then the mock trade's sleep or the real trade's first
\* gateway call.
BalanceReturned ==
    /\ pc = "balance"
    /\ \E ok \in BOOLEAN, value \in BalanceChoices(cmd.amount_sol) :
        LET balance == WalletBalance(ok, value)
            seen == [cur EXCEPT !.balance = balance, !.balance_failed = ~ok]
        IN  /\ ok \/ value = 0
            /\ Answers(resources.solana_client, ok)
            /\ IF InsufficientBalance(balance, cmd.amount_sol)
               THEN Reject(cmd, "balance", seen)
               ELSE /\ cur' = [seen EXCEPT !.phase = "passed"]
                    /\ pc' = IF config.mock_trading THEN "mock_sleep" ELSE "token_info"
                    /\ UNCHANGED result
    /\ UNCHANGED <<config, stopper, today, trading_keypair, websocket, stats, cmd, attempt,
                   outbox, ncmds>>
    /\ UNCHANGED engineVars
    /\ UNCHANGED connVars
    /\ UNCHANGED sessionVars

\* _mock_trade: after asyncio.sleep(0.1) the synthetic result is returned
\* straight out of execute_pump_trade.
MockTradeDone ==
    /\ pc = "mock_sleep"
    /\ result' = MockResult(cmd)
    /\ cur' = [cur EXCEPT !.results = @ + 1]
    /\ pc' = "send_result"
    /\ UNCHANGED <<config, stopper, today, trading_keypair, websocket, stats, cmd, attempt,
                   outbox, ncmds>>
    /\ UNCHANGED engineVars
    /\ UNCHANGED connVars
    /\ UNCHANGED sessionVars

\* _execute_real_trade raised: its except wraps the error, the except of
\* execute_pump_trade turns it into a failed TradeResult. No statistics.
ExecutionFailed(message) ==
    /\ result' = FailedResult(cmd, message)
    /\ pc' = "send_result"
    /\ UNCHANGED engineVars

\* _get_token_info returns the token's record, or None
TokenInfoReturned ==
    /\ pc = "token_info"
    /\ \E found \in BOOLEAN :
        /\ Answers(resources.http_client, found)
        /\ IF found
           THEN /\ pc' = "calc_amount"
                /\ cur' = cur
                /\ UNCHANGED result
                /\ UNCHANGED engineVars
           ELSE /\ ExecutionFailed("token_not_found")
                /\ cur' = [cur EXCEPT !.results = @ + 1]
    /\ UNCHANGED <<config, stopper, today, trading_keypair, websocket, stats, cmd, attempt,
                   outbox, ncmds>>
    /\ UNCHANGED connVars
    /\ UNCHANGED sessionVars

\* _calculate_token_amount never raises (it falls back to a nominal amount);
\* _build_pump_transaction then asks for the latest blockhash.
TokenAmountCalculated ==
    /\ pc = "calc_amount"
    /\ pc' = "build_tx"
    /\ UNCHANGED <<config, stopper, today, trading_keypair, websocket, stats, cmd, result,
                   attempt, outbox, ncmds, cur>>
    /\ UNCHANGED engineVars
    /\ UNCHANGED connVars
    /\ UNCHANGED sessionVars

\* get_latest_blockhash returns: the transaction is built, signed and handed
\* to solana_client.send_transaction; or it raises.
TransactionBuilt ==
    /\ pc = "build_tx"
    /\ \E ok \in BOOLEAN :
        /\ Answers(resources.solana_client, ok)
        /\ IF ok
           THEN /\ cur' = [cur EXCEPT !.built = TRUE, !.submitted = TRUE]
                /\ pc' = "submit"
                /\ UNCHANGED result
                /\ UNCHANGED engineVars
           ELSE /\ ExecutionFailed("build_failed")
                /\ cur' = [cur EXCEPT !.results = @ + 1]
    /\ UNCHANGED <<config, stopper, today, trading_keypair, websocket, stats, cmd, attempt,
                   outbox, ncmds>>
    /\ UNCHANGED connVars
    /\ UNCHANGED sessionVars

\* send_transaction returns the transaction id (polling starts), or raises
TransactionSubmitted ==
    /\ pc = "submit"
    /\ \E ok \in BOOLEAN :
        /\ Answers(resources.solana_client, ok)
        /\ IF ok
           THEN /\ pc' = "confirm"
                /\ attempt' = 0
                /\ cur' = cur
                /\ UNCHANGED result
                /\ UNCHANGED engineVars
           ELSE /\ ExecutionFailed("submit_failed")
                /\ cur' = [cur EXCEPT !.results = @ + 1]
                /\ UNCHANGED attempt
    /\ UNCHANGED <<config, stopper, today, trading_keypair, websocket, stats, cmd, outbox,
                   ncmds>>
    /\ UNCHANGED connVars
    /\ UNCHANGED sessionVars

\* _wait_for_confirmation, one pass of its loop: get_signature_status answers
\* (or raises), and the pass either returns, sleeps into the next pass or
\* raises out of the loop.
PollReturns(outcome) == outcome \in {"confirmed", "confirmed_err"}
PollRaises(outcome) == outcome \in {"err", "rpc_error"}
PollGivesUp(outcome, n) ==
    IF PollRaises(outcome) THEN n = max_retries - 1 ELSE n + 1 = max_retries
PollError(outcome) ==
    CASE outcome = "err" -> "confirm_timeout_rejected"
      [] outcome = "rpc_error" -> "confirm_timeout_rpc"
      [] OTHER -> "confirm_timeout"

ConfirmationPolled ==
    /\ pc = "confirm"
    /\ attempt < max_retries
    /\ \E outcome \in PollOutcomes :
        /\ Answers(resources.solana_client, outcome # "rpc_error")
        /\ IF PollReturns(outcome)
           THEN  \* confirmed: the volume is booked, the result built, and
                 \* execute_pump_trade updates the statistics
                 /\ daily_volume_used' = AddDailyVolume(daily_volume_used, cmd.amount_sol)
                 /\ result' = RealResult(cmd)
                 /\ trade_stats' = UpdateTradeStats(trade_stats, RealResult(cmd))
                 /\ cur' = [cur EXCEPT !.results = @ + 1, !.last_poll = outcome]
                 /\ pc' = "send_result"
                 /\ attempt' = 0
                 /\ UNCHANGED last_reset_day
           ELSE IF PollGivesUp(outcome, attempt)
           THEN  /\ ExecutionFailed(PollError(outcome))
                 /\ cur' = [cur EXCEPT !.results = @ + 1, !.last_poll = outcome]
                 /\ attempt' = 0
           ELSE  \* the pass sleeps, in its try or in its except, and the
                 \* loop goes on
                 /\ attempt' = attempt + 1
                 /\ cur' = [cur EXCEPT !.last_poll = outcome]
                 /\ UNCHANGED <<pc, result>>
                 /\ UNCHANGED engineVars
    /\ UNCHANGED <<config, stopper, today, trading_keypair, websocket, stats, cmd, outbox,
                   ncmds>>
    /\ UNCHANGED connVars
    /\ UNCHANGED sessionVars

\* _handle_pump_command sends the pump_result; when that raises, its except
\* branch sends a pump_error, and when that raises too the error ends in
\* _process_message. Either way the receive loop goes on.
PumpResponseSent ==
    /\ pc = "send_result"
    /\ IF CanSend
       THEN /\ outbox' = Append(outbox, Framed(PumpResultMessage(cmd, result),
                                                   shared_key))
            /\ stats' = [stats EXCEPT !.messages_sent = @ + 1,
                                      !.trades_executed = @ + 1]
       ELSE \* except branch: the pump_error goes through _send_message too
            IF CanSend
            THEN /\ outbox' = Append(outbox, Framed(PumpErrorMessage(cmd),
                                                        shared_key))
                 /\ stats' = [stats EXCEPT !.messages_sent = @ + 1]
            ELSE UNCHANGED <<outbox, stats>>
    /\ cur' = [cur EXCEPT !.done = TRUE]
    /\ pc' = "recv"
    /\ UNCHANGED <<config, stopper, today, trading_keypair, websocket, cmd, result, attempt,
                   ncmds>>
    /\ UNCHANGED engineVars
    /\ UNCHANGED connVars
    /\ UNCHANGED sessionVars

\* the coordinator (or the network) closes the transport
PeerClose ==
    /\ websocket = "open"
    /\ websocket' = "closed"
    /\ UNCHANGED <<config, stopper, today, trading_keypair, stats, pc, cmd, result, attempt,
                   outbox, ncmds, cur>>
    /\ UNCHANGED engineVars
    /\ UNCHANGED connVars
    /\ UNCHANGED sessionVars

\* the UTC date changes
Tick ==
    /\ today < MaxDay
    /\ today' = today + 1
    /\ UNCHANGED <<config, stopper, trading_keypair, websocket, stats, pc, cmd, result,
                   attempt, outbox, ncmds, cur>>
    /\ UNCHANGED engineVars
    /\ UNCHANGED connVars
    /\ UNCHANGED sessionVars

\* variant: the connection loop is entered again without the cool-down
AfterMessageHandler_NoCooldown(running) == IF running THEN "connecting" ELSE "stopped"

\* run() after message_handler has returned: `if self.is_running:
\* await asyncio.sleep(5)`, else the loop ends
AfterMessageHandler(running) == IF running THEN "cooldown" ELSE "stopped"

\* message_handler: the `async for` over the transport ends once it is closed;
\* run() then starts its cool-down sleep if the worker is still running.
MessageHandlerEnds ==
    /\ pc = "recv"
    /\ websocket = "closed"
    /\ pc' = AfterMessageHandler(is_running)
    /\ UNCHANGED <<config, stopper, today, trading_keypair, websocket, stats, cmd, result,
                   attempt, outbox, ncmds, cur>>
    /\ UNCHANGED engineVars
    /\ UNCHANGED connVars
    /\ UNCHANGED sessionVars

(***************************************************************************)
(* The trading specification: a registered worker on an open connection    *)
(* receives pump_commands.                                                 *)
(***************************************************************************)
TradeConfigs ==
    [mock_trading : BOOLEAN,
     min_trade_size_sol : MinTradeSizes,
     max_trade_size_sol : {MaxSize},
     daily_trade_limit_sol : DailyLimits,
     retry_delay : {1},
     backoff_factor : {2},
     encryption_enabled : {TRUE},
     worker_private_key_x25519 : {FALSE},
     coordinator_public_key_x25519 : {NoKey}]

InitTrade ==
    /\ config \in TradeConfigs
    /\ today = 0
    /\ trading_keypair \in BOOLEAN
    /\ daily_volume_used = 0
    /\ last_reset_day = 0
    /\ trade_stats = NoStats
    /\ is_running = TRUE
    /\ websocket = "open"
    /\ reconnect_attempts = 0
    /\ max_reconnect_attempts = 10
    /\ stats = [messages_sent |-> 1, messages_received |-> 0, trades_executed |-> 0,
                last_heartbeat |-> NoHeartbeat]
    /\ pc = "recv"
    /\ cmd = NoCommand
    /\ result = NoResult
    /\ attempt = 0
    /\ retry_delay = config.retry_delay
    /\ connections = 1
    /\ outbox = <<Framed(RegisterMessage, NoKey)>>
    /\ waits = <<>>
    /\ failures = 0
    /\ ncmds = 0
    /\ cur = NoCur
    /\ shared_key = NoKey
    /\ coordinator_public_key = config.coordinator_public_key_x25519
    /\ wallets = {}
    /\ frame = NoFrame
    /\ registered_on = 1
    /\ nframes = 0
    /\ codec = NoCodec
    /\ resources = Registered_Resources
    /\ stopper = NoStopper

NextTrade ==
    \/ ReceivePumpCommand
    \/ BalanceReturned
    \/ MockTradeDone
    \/ TokenInfoReturned
    \/ TokenAmountCalculated
    \/ TransactionBuilt
    \/ TransactionSubmitted
    \/ ConfirmationPolled
    \/ PumpResponseSent
    \/ PeerClose
    \/ Tick
    \/ MessageHandlerEnds

SpecTrade == InitTrade /\ [][NextTrade]_vars

(***************************************************************************)
(* WorkerApp.run, connect_to_coordinator and shutdown.                     *)
(***************************************************************************)

\* variant: the loop admits an attempt with the counter at the limit
LoopHead_Inclusive(running, attempts) ==
    IF running /\ attempts <= max_reconnect_attempts THEN "connecting" ELSE "give_up"

\* `while self.is_running and self.reconnect_attempts < self.max_reconnect_attempts`:
\* the next await of connect_to_coordinator, or its `return False`
LoopHead(running, attempts) ==
    IF running /\ attempts < max_reconnect_attempts THEN "connecting" ELSE "give_up"

\* `if self.reconnect_attempts < self.max_reconnect_attempts` in the except
\* branch: sleep before the next attempt
ShouldWait(attempts) == attempts < max_reconnect_attempts

\* variant: the delay grows by addition instead of multiplication
NextRetryDelay_Additive(delay) == delay + config.backoff_factor

\* `retry_delay *= self.config.backoff_factor`
NextRetryDelay(delay) == delay * config.backoff_factor

\* shutdown(): nothing when not running; else the flag is cleared and the
\* transport closed if it is open
ShutdownTransport(running, ws) == IF running /\ ws = "open" THEN "closed" ELSE ws

\* variant: shutdown sets the status and leaves the clients as they are
ShutdownResources_StatusOnly(running, res) ==
    IF running THEN [res EXCEPT !.status = "stopped"] ELSE res

\* shutdown() past the transport: nothing when not running; else each client
\* that exists is closed, the engine stopped and the status set to "stopped"
ShutdownResources(running, res) ==
    IF running
    THEN [http_client |-> IF res.http_client = "open" THEN "closed"
                          ELSE res.http_client,
          solana_client |-> IF res.solana_client = "open" THEN "closed"
                            ELSE res.solana_client,
          trading_engine |-> IF res.trading_engine = "running" THEN "stopped"
                             ELSE res.trading_engine,
          status |-> "stopped"]
    ELSE res

\* shutdown() past its `if not self.is_running: return`: one more release
\* sequence is begun
BeginsRelease(running, s) ==
    IF running THEN [s EXCEPT !.sequences = @ + 1] ELSE s

\* _initialize_encryption goes as far as the key exchange: encryption is
\* enabled and both keys are there
ExchangesKeys(public_key) ==
    /\ config.encryption_enabled
    /\ config.worker_private_key_x25519
    /\ public_key # NoKey

\* perform_key_exchange_x25519 raises on a public key it cannot load, and
\* _initialize_encryption passes the error on as a ValueError
InitializeEncryptionRaises(public_key) ==
    ExchangesKeys(public_key) /\ public_key \notin ValidPublicKeys

\* perform_key_exchange_x25519: the key derived from the worker's private key
\* and the coordinator's public key
KeyExchange(public_key) == IF public_key = "pk" THEN "k" ELSE "k2"

\* self.shared_key after _initialize_encryption: the key derived from the two
\* keys, or what it was when the exchange is not reached or raises
InitializeEncryption(key, public_key) ==
    IF ExchangesKeys(public_key) /\ ~InitializeEncryptionRaises(public_key)
    THEN KeyExchange(public_key)
    ELSE key

\* what initialize() has built when it returns or raises: nothing when
\* _initialize_encryption raises, the two clients when the gateway's health
\* check or the engine fails, everything otherwise
InitializeResources(ok, public_key) ==
    IF InitializeEncryptionRaises(public_key) THEN NoResources
    ELSE IF ok THEN Initialized_Resources
    ELSE [NoResources EXCEPT !.http_client = "open", !.solana_client = "open"]

\* run() calls connect_to_coordinator: `retry_delay = self.config.retry_delay`
\* and the first test of its loop
EnterConnect ==
    /\ retry_delay' = config.retry_delay
    /\ waits' = <<>>
    /\ failures' = 0
    /\ pc' = LoopHead(is_running, reconnect_attempts)

\* the except branch of connect_to_coordinator and the loop test after it
AttemptFailed ==
    /\ Len(waits) < MaxWaits
    /\ reconnect_attempts' = reconnect_attempts + 1
    /\ failures' = failures + 1
    /\ IF ShouldWait(reconnect_attempts + 1)
       THEN /\ waits' = Append(waits, retry_delay)
            /\ pc' = "backoff"
       ELSE /\ waits' = waits
            /\ pc' = LoopHead(is_running, reconnect_attempts + 1)
    /\ UNCHANGED retry_delay

\* run(): is_running = True, then initialize()
RunStarts ==
    /\ pc = "start"
    /\ is_running' = TRUE
    /\ pc' = "initialize"
    /\ UNCHANGED <<config, stopper, today, trading_keypair, websocket, reconnect_attempts,
                   max_reconnect_attempts, stats, cmd, result, attempt, retry_delay,
                   outbox, waits, failures, connections, ncmds, cur>>
    /\ UNCHANGED engineVars
    /\ UNCHANGED sessionVars

\* initialize() returns and the main loop is entered, or it raises and the
\* finally of run() shuts the worker down
Initialized ==
    /\ pc = "initialize"
    /\ \E ok \in BOOLEAN :
        LET raises == ~ok \/ InitializeEncryptionRaises(coordinator_public_key)
            built == InitializeResources(ok, coordinator_public_key)
        IN  IF ~raises /\ is_running
            THEN /\ EnterConnect
                 /\ shared_key' = InitializeEncryption(shared_key,
                                                       coordinator_public_key)
                 /\ resources' = built
                 /\ UNCHANGED <<is_running, websocket, stopper>>
            ELSE /\ is_running' = FALSE
                 /\ websocket' = ShutdownTransport(is_running, websocket)
                 /\ resources' = ShutdownResources(
                                     is_running,
                                     IF raises THEN [built EXCEPT !.status = "error"]
                                     ELSE built)
                 /\ stopper' = BeginsRelease(is_running, stopper)
                 /\ pc' = "stopped"
                 /\ UNCHANGED <<retry_delay, waits, failures, shared_key>>
    /\ UNCHANGED <<config, today, trading_keypair, reconnect_attempts,
                   max_reconnect_attempts, stats, cmd, result, attempt, outbox,
                   connections, ncmds, cur>>
    /\ UNCHANGED engineVars
    /\ UNCHANGED <<coordinator_public_key, wallets, frame, registered_on, nframes,
                   codec>>

\* websockets.connect returns: the counter is reset and the registration is
\* handed to _send_message
ConnectSucceeds ==
    /\ pc = "connecting"
    /\ connections < MaxConnections
    /\ websocket' = "open"
    /\ connections' = connections + 1
    /\ reconnect_attempts' = 0
    /\ pc' = "registering"
    /\ UNCHANGED <<config, stopper, today, trading_keypair, is_running,
                   max_reconnect_attempts, stats, cmd, result, attempt, retry_delay,
                   outbox, waits, failures, ncmds, cur>>
    /\ UNCHANGED engineVars
    /\ UNCHANGED sessionVars

\* websockets.connect raises
ConnectFails ==
    /\ pc = "connecting"
    /\ AttemptFailed
    /\ UNCHANGED <<config, stopper, today, trading_keypair, is_running, websocket,
                   max_reconnect_attempts, stats, cmd, result, attempt, outbox,
                   connections, ncmds, cur>>
    /\ UNCHANGED engineVars
    /\ UNCHANGED sessionVars

\* the register frame is sent: connect_to_coordinator returns True and run()
\* enters message_handler
RegistrationSent ==
    /\ pc = "registering"
    /\ CanSend
    /\ outbox' = Append(outbox, Framed(RegisterMessage, shared_key))
    /\ stats' = [stats EXCEPT !.messages_sent = @ + 1]
    /\ pc' = "recv"
    /\ UNCHANGED <<config, stopper, today, trading_keypair, websocket, cmd, result, attempt,
                   ncmds, cur>>
    /\ UNCHANGED engineVars
    /\ UNCHANGED connVars
    /\ UNCHANGED sessionRest
    /\ resources' = [resources EXCEPT !.status = "connected"]

\* sending the register frame raises (the transport closed under it): the
\* except branch of connect_to_coordinator counts a failed attempt
RegistrationSendFails ==
    /\ pc = "registering"
    /\ ~CanSend
    /\ AttemptFailed
    /\ UNCHANGED <<config, stopper, today, trading_keypair, is_running, websocket,
                   max_reconnect_attempts, stats, cmd, result, attempt, outbox,
                   connections, ncmds, cur>>
    /\ UNCHANGED engineVars
    /\ UNCHANGED sessionVars

\* asyncio.sleep(retry_delay) returns: the delay is multiplied and the loop
\* condition tested
BackoffDone ==
    /\ pc = "backoff"
    /\ retry_delay' = NextRetryDelay(retry_delay)
    /\ pc' = LoopHead(is_running, reconnect_attempts)
    /\ UNCHANGED <<config, stopper, today, trading_keypair, is_running, websocket,
                   reconnect_attempts, max_reconnect_attempts, stats, cmd, result,
                   attempt, outbox, waits, failures, connections, ncmds, cur>>
    /\ UNCHANGED engineVars
    /\ UNCHANGED sessionVars

\* connect_to_coordinator returned False: run() breaks out of its loop and its
\* finally calls shutdown()
GiveUp ==
    /\ pc = "give_up"
    /\ is_running' = FALSE
    /\ websocket' = ShutdownTransport(is_running, websocket)
    /\ stopper' = BeginsRelease(is_running, stopper)
    /\ pc' = "stopped"
    /\ UNCHANGED <<config, today, trading_keypair, reconnect_attempts,
                   max_reconnect_attempts, stats, cmd, result, attempt, retry_delay,
                   outbox, waits, failures, connections, ncmds, cur>>
    /\ UNCHANGED engineVars
    /\ UNCHANGED sessionRest
    /\ resources' = ShutdownResources(is_running, resources)

\* asyncio.sleep(5) of run() returns: `while self.is_running`
CooldownDone ==
    /\ pc = "cooldown"
    /\ IF is_running
       THEN EnterConnect
       ELSE /\ pc' = "stopped"
            /\ UNCHANGED <<retry_delay, waits, failures>>
    /\ UNCHANGED <<config, stopper, today, trading_keypair, is_running, websocket,
                   reconnect_attempts, max_reconnect_attempts, stats, cmd, result,
                   attempt, outbox, connections, ncmds, cur>>
    /\ UNCHANGED engineVars
    /\ UNCHANGED sessionVars

\* SIGINT/SIGTERM: the signal handler's shutdown() task runs while the main
\* task is parked at an await, and none of its own awaits lets the main task
\* in (the stopping specification follows the task await by await)
SignalShutdown ==
    /\ is_running
    /\ pc \notin {"start", "stopped"}
    /\ is_running' = FALSE
    /\ websocket' = ShutdownTransport(is_running, websocket)
    /\ stopper' = BeginsRelease(is_running, stopper)
    /\ UNCHANGED <<config, today, trading_keypair, reconnect_attempts,
                   max_reconnect_attempts, stats, pc, cmd, result, attempt,
                   retry_delay, outbox, waits, failures, connections, ncmds, cur>>
    /\ UNCHANGED engineVars
    /\ UNCHANGED sessionRest
    /\ resources' = ShutdownResources(is_running, resources)

(***************************************************************************)
(* The connection specification: run() from its start.                     *)
(***************************************************************************)
ConnConfigs ==
    [mock_trading : {FALSE},
     min_trade_size_sol : {1},
     max_trade_size_sol : {MaxSize},
     daily_trade_limit_sol : DailyLimits,
     retry_delay : RetryDelays,
     backoff_factor : BackoffFactors,
     encryption_enabled : {TRUE},
     worker_private_key_x25519 : {FALSE},
     coordinator_public_key_x25519 : {NoKey}]

InitConn ==
    /\ config \in ConnConfigs
    /\ today = 0
    /\ trading_keypair = TRUE
    /\ daily_volume_used = 0
    /\ last_reset_day = 0
    /\ trade_stats = NoStats
    /\ is_running = FALSE
    /\ websocket = "none"
    /\ reconnect_attempts = 0
    /\ max_reconnect_attempts \in ReconnectLimits
    /\ stats = NoTraffic
    /\ pc = "start"
    /\ cmd = NoCommand
    /\ result = NoResult
    /\ attempt = 0
    /\ retry_delay = config.retry_delay
    /\ outbox = <<>>
    /\ waits = <<>>
    /\ failures = 0
    /\ connections = 0
    /\ ncmds = 0
    /\ cur = NoCur
    /\ shared_key = NoKey
    /\ coordinator_public_key = config.coordinator_public_key_x25519
    /\ wallets = {}
    /\ frame = NoFrame
    /\ registered_on = 0
    /\ nframes = 0
    /\ codec = NoCodec
    /\ resources = NoResources
    /\ stopper = NoStopper

NextConn ==
    \/ RunStarts
    \/ Initialized
    \/ ConnectSucceeds
    \/ ConnectFails
    \/ RegistrationSent
    \/ RegistrationSendFails
    \/ BackoffDone
    \/ GiveUp
    \/ PeerClose
    \/ MessageHandlerEnds
    \/ CooldownDone
    \/ SignalShutdown

SpecConn == InitConn /\ [][NextConn]_vars

(***************************************************************************)
(* Inbound frames: message_handler -> _process_message -> the handlers     *)
(* other than _handle_pump_command.  None of them keeps the main task      *)
(* parked between two changes of state, so each frame is one step.         *)
(***************************************************************************)

\* message types _process_message has a branch for, besides pump_command
HandledTypes == {"registration_success", "registration_error", "heartbeat_request",
                 "wallet_assignment", "status_request"}

\* a type it has no branch for
UnknownType == "ping"

\* the private keys a wallet_assignment carries: two base58 keys of a
\* Keypair, and a string that is none
WalletKeys == {"w1", "w2", "malformed"}

\* What a frame holds once decoded.  offers: the coordinator_public_key_x25519
\* of a registration_success; sealed_key: the key the encrypted_private_key of
\* a wallet_assignment was sealed with; wallet_key: the private key inside it.
Payloads ==
    {[type |-> "registration_success", offers |-> o, wallet_index |-> 0,
      sealed_key |-> NoKey, wallet_key |-> "none"] : o \in {NoKey} \cup PublicKeys}
    \cup {[type |-> t, offers |-> NoKey, wallet_index |-> 0, sealed_key |-> NoKey,
           wallet_key |-> "none"] :
             t \in {"registration_error", "heartbeat_request", "status_request",
                    UnknownType}}
    \cup {[type |-> "wallet_assignment", offers |-> NoKey, wallet_index |-> i,
           sealed_key |-> "k", wallet_key |-> "w1"] : i \in WalletIndices}
    \cup {[type |-> "wallet_assignment", offers |-> NoKey, wallet_index |-> 0,
           sealed_key |-> "k", wallet_key |-> w] : w \in WalletKeys}
    \cup {[type |-> "wallet_assignment", offers |-> NoKey, wallet_index |-> 0,
           sealed_key |-> "other", wallet_key |-> "w1"]}

\* the payloads followed inside an authentic envelope, and inside one sealed
\* by somebody without the session key
SealedPayloads ==
    {p \in Payloads : /\ p.type \in {"heartbeat_request", "wallet_assignment",
                                      UnknownType}
                      /\ p.wallet_index = 0
                      /\ p.sealed_key # "other"
                      /\ p.wallet_key \in {"none", "w1"}}
ForgedPayloads == {p \in Payloads : p.type = "registration_error"}

\* A frame on the wire.  wire: "text" is no JSON, "json" a JSON object;
\* envelope: "none" for a plain message, else a {"type": "encrypted"} message
\* whose data is sealed with the session key "k" ("sealed"), sealed with
\* another key or altered ("forged"), or not of three fields ("short").
WireFrame(wire, envelope, p) ==
    [wire |-> wire, envelope |-> envelope, type |-> p.type, offers |-> p.offers,
     wallet_index |-> p.wallet_index, sealed_key |-> p.sealed_key,
     wallet_key |-> p.wallet_key, fault |-> "none"]

Frames ==
    {WireFrame("text", "none", p) : p \in {q \in Payloads : q.type = UnknownType}}
    \cup {WireFrame("json", "short", p) : p \in {q \in Payloads : q.type = UnknownType}}
    \cup {WireFrame("json", "forged", p) : p \in ForgedPayloads}
    \cup {WireFrame("json", "sealed", p) : p \in SealedPayloads}
    \cup {WireFrame("json", "none", p) : p \in Payloads}

\* variant: an envelope is taken for authentic whoever sealed it
DecodeFault_TrustsEnvelope(f, key) ==
    IF f.wire = "text" THEN "json"
    ELSE IF f.envelope = "short" THEN "envelope"
    ELSE "none"

\* json.loads, then for an "encrypted" message _decrypt_message and json.loads
\* again: what raises first. AES-GCM needs a key (self.shared_key is None
\* before the exchange) and accepts only what was sealed with it.
DecodeFault(f, key) ==
    IF f.wire = "text" THEN "json"
    ELSE IF f.envelope = "none" THEN "none"
    ELSE IF f.envelope = "short" THEN "envelope"
    ELSE IF key = NoKey THEN "no_key"
    ELSE IF f.envelope = "forged" \/ key # "k" THEN "auth"
    ELSE "none"

\* `self.stats["messages_received"] += 1`, right after the first json.loads
CountReceived(st, f) ==
    IF f.wire = "json" THEN [st EXCEPT !.messages_received = @ + 1] ELSE st

\* variant: a type without a branch is treated as a registration_error
HandlerOf_ElseFatal(message_type) ==
    IF message_type \in HandledTypes THEN message_type ELSE "registration_error"

\* the if/elif chain of _process_message: the handler a type goes to
HandlerOf(message_type) ==
    IF message_type \in HandledTypes THEN message_type ELSE "none"

\* The Python types of the values a message holds when it reaches json.dumps.
\* heartbeat_ack and worker_status hold self.stats.copy(), whose start_time
\* is a datetime; the other messages hold strings, numbers, booleans, None and
\* dicts of those.
JsonTypes == {"str", "int", "float", "bool", "NoneType", "dict", "list"}
StatsValueTypes == {"datetime", "int", "NoneType"}
ValueTypes(message) ==
    IF message.type \in {"heartbeat_ack", "worker_status"}
    THEN {"str", "float", "dict"} \cup StatsValueTypes
    ELSE {"str", "int", "float", "bool", "NoneType", "dict"}

\* json.dumps raises TypeError on a value of any other type
JsonSerializable(message) == ValueTypes(message) \subseteq JsonTypes

\* _send_message raises: the transport is not open, or the message cannot be
\* serialized
SendRaises(message) == ~CanSend \/ ~JsonSerializable(message)

HeartbeatAck == [type |-> "heartbeat_ack", command_id |-> 0, success |-> FALSE]
WorkerStatus == [type |-> "worker_status", command_id |-> 0, success |-> FALSE]

\* `str(keypair.pubkey())`: the public key of the Keypair made of a private key
PublicKeyOf(private_key) ==
    CASE private_key = "w1" -> "W1"
      [] private_key = "w2" -> "W2"
      [] OTHER -> "none"

\* the wallet_assigned response: wallet_index and public_key of the Keypair
\* just stored
WalletAssigned(f) ==
    [type |-> "wallet_assigned", command_id |-> 0, success |-> FALSE,
     wallet_index |-> f.wallet_index, public_key |-> PublicKeyOf(f.wallet_key)]

\* _handle_wallet_assignment up to the Keypair: `if not self.shared_key`, then
\* decrypt_wallet_key, which opens only what was sealed with the session key,
\* then base58.b58decode and Keypair.from_bytes
WalletKeyFault(f, key) ==
    IF key = NoKey THEN "no_key"
    ELSE IF f.sealed_key # key THEN "undecryptable"
    ELSE IF f.wallet_key \notin {"w1", "w2"} THEN "keypair"
    ELSE "none"

\* the dict after `wallets[index] = keypair`: one entry for each index
StoreWallet(table, index, keypair) ==
    {e \in table : e[1] # index} \cup {<<index, keypair>>}

\* variant: the wallet is stored before its key has been checked
AssignWallet_Unchecked(table, f, key) ==
    StoreWallet(table, f.wallet_index, f.wallet_key)

\* `self.wallets[wallet_index] = keypair`, reached only with a Keypair
AssignWallet(table, f, key) ==
    IF WalletKeyFault(f, key) = "none"
    THEN StoreWallet(table, f.wallet_index, f.wallet_key)
    ELSE table

\* message_handler takes the next frame from the transport (a frame that came
\* in before the transport closed is still delivered)
Received(f) ==
    /\ pc = "recv"
    /\ websocket # "none"
    /\ nframes + ncmds < MaxFrames
    /\ f \in Frames
    /\ nframes' = nframes + 1

\* the frame is decoded and goes to the handler named
Dispatched(f, handler) ==
    /\ Received(f)
    /\ DecodeFault(f, shared_key) = "none"
    /\ HandlerOf(f.type) = handler

\* a handler sends `message`: the frame ends with fault "send" when that
\* raises, and with it appended to the outbox otherwise
Responds(f, message) ==
    IF SendRaises(message)
    THEN /\ frame' = [f EXCEPT !.fault = "send"]
         /\ outbox' = outbox
    ELSE /\ frame' = f
         /\ outbox' = Append(outbox, Framed(message, shared_key))

\* json.loads or _decrypt_message raises: the except of _process_message logs
\* it and the receive loop goes on
FrameRejected ==
    /\ \E f \in Frames :
        /\ Received(f)
        /\ DecodeFault(f, shared_key) # "none"
        /\ frame' = [f EXCEPT !.fault = DecodeFault(f, shared_key)]
        /\ stats' = CountReceived(stats, f)
    /\ UNCHANGED <<config, stopper, today, trading_keypair, websocket, pc, cmd, result,
                   attempt, outbox, ncmds, cur, shared_key, coordinator_public_key,
                   wallets, registered_on, codec, resources>>
    /\ UNCHANGED engineVars
    /\ UNCHANGED connVars

\* _handle_registration_success: a coordinator key is taken only when none is
\* held, and then _initialize_encryption runs
HandleRegistrationSuccess ==
    /\ \E f \in Frames :
        LET takes == f.offers # NoKey /\ coordinator_public_key = NoKey
            public_key == IF takes THEN f.offers ELSE coordinator_public_key
            raises == takes /\ InitializeEncryptionRaises(public_key)
        IN  /\ Dispatched(f, "registration_success")
            /\ coordinator_public_key' = public_key
            /\ shared_key' = IF takes
                             THEN InitializeEncryption(shared_key, public_key)
                             ELSE shared_key
            /\ frame' = [f EXCEPT !.fault = IF raises THEN "key_exchange" ELSE "none"]
            /\ stats' = CountReceived(stats, f)
            /\ resources' = IF raises THEN resources
                            ELSE [resources EXCEPT !.status = "registered"]
    /\ registered_on' = connections
    /\ UNCHANGED <<config, stopper, today, trading_keypair, websocket, pc, cmd, result,
                   attempt, outbox, ncmds, cur, wallets, codec>>
    /\ UNCHANGED engineVars
    /\ UNCHANGED connVars

\* _handle_registration_error: shutdown()
HandleRegistrationError ==
    /\ \E f \in Frames :
        /\ Dispatched(f, "registration_error")
        /\ frame' = f
        /\ stats' = CountReceived(stats, f)
    /\ is_running' = FALSE
    /\ websocket' = ShutdownTransport(is_running, websocket)
    /\ stopper' = BeginsRelease(is_running, stopper)
    /\ UNCHANGED <<config, today, trading_keypair, reconnect_attempts,
                   max_reconnect_attempts, pc, cmd, result, attempt, retry_delay,
                   outbox, waits, failures, connections, ncmds, cur, shared_key,
                   coordinator_public_key, wallets, registered_on, codec>>
    /\ resources' = ShutdownResources(is_running, resources)
    /\ UNCHANGED engineVars

\* _handle_heartbeat_request: the heartbeat_ack is sent, and after it
\* last_heartbeat is set
HandleHeartbeatRequest ==
    /\ \E f \in Frames :
        /\ Dispatched(f, "heartbeat_request")
        /\ Responds(f, HeartbeatAck)
        /\ stats' = IF SendRaises(HeartbeatAck)
                    THEN CountReceived(stats, f)
                    ELSE [CountReceived(stats, f) EXCEPT !.messages_sent = @ + 1,
                                                         !.last_heartbeat = today]
    /\ UNCHANGED <<config, stopper, today, trading_keypair, websocket, pc, cmd, result,
                   attempt, ncmds, cur, shared_key, coordinator_public_key, wallets,
                   registered_on, codec, resources>>
    /\ UNCHANGED engineVars
    /\ UNCHANGED connVars

\* _handle_wallet_assignment: its own except ends every failure, that of the
\* send included
HandleWalletAssignment ==
    /\ \E f \in Frames :
        /\ Dispatched(f, "wallet_assignment")
        /\ wallets' = AssignWallet(wallets, f, shared_key)
        /\ IF WalletKeyFault(f, shared_key) # "none"
           THEN /\ frame' = [f EXCEPT !.fault = "wallet_key"]
                /\ outbox' = outbox
                /\ stats' = CountReceived(stats, f)
           ELSE /\ Responds(f, WalletAssigned(f))
                /\ stats' = IF SendRaises(WalletAssigned(f))
                            THEN CountReceived(stats, f)
                            ELSE [CountReceived(stats, f) EXCEPT !.messages_sent = @ + 1]
    /\ UNCHANGED <<config, stopper, today, trading_keypair, websocket, pc, cmd, result,
                   attempt, ncmds, cur, shared_key, coordinator_public_key,
                   registered_on, codec, resources>>
    /\ UNCHANGED engineVars
    /\ UNCHANGED connVars

\* _handle_status_request: the worker_status is sent
HandleStatusRequest ==
    /\ \E f \in Frames :
        /\ Dispatched(f, "status_request")
        /\ Responds(f, WorkerStatus)
        /\ stats' = IF SendRaises(WorkerStatus)
                    THEN CountReceived(stats, f)
                    ELSE [CountReceived(stats, f) EXCEPT !.messages_sent = @ + 1]
    /\ UNCHANGED <<config, stopper, today, trading_keypair, websocket, pc, cmd, result,
                   attempt, ncmds, cur, shared_key, coordinator_public_key, wallets,
                   registered_on, codec, resources>>
    /\ UNCHANGED engineVars
    /\ UNCHANGED connVars

\* the else branch of _process_message: a warning is logged
UnknownMessage ==
    /\ \E f \in Frames :
        /\ Dispatched(f, "none")
        /\ frame' = f
        /\ stats' = CountReceived(stats, f)
    /\ UNCHANGED <<config, stopper, today, trading_keypair, websocket, pc, cmd, result,
                   attempt, outbox, ncmds, cur, shared_key, coordinator_public_key,
                   wallets, registered_on, codec, resources>>
    /\ UNCHANGED engineVars
    /\ UNCHANGED connVars

\* what a pump_command frame holds besides the command
PumpPayload ==
    [type |-> "pump_command", offers |-> NoKey, wallet_index |-> 0,
     sealed_key |-> NoKey, wallet_key |-> "none"]

\* the envelopes a pump_command gets through _process_message in: none (the
\* `if message.get("type") == "encrypted"` is not taken, whatever the key
\* held), or one sealed with the session key held
PumpEnvelopes(key) == {e \in {"none", "sealed"} : DecodeFault(
                           WireFrame("json", e, PumpPayload), key) = "none"}

\* a pump_command among the frames of a connection
PumpCommandFrame ==
    /\ nframes + ncmds < MaxFrames
    /\ TakePumpCommand
    /\ \E envelope \in PumpEnvelopes(shared_key) :
           frame' = WireFrame("json", envelope, PumpPayload)
    /\ UNCHANGED <<shared_key, coordinator_public_key, wallets, registered_on,
                   nframes, codec, resources>>

(***************************************************************************)
(* The dispatch specification: a worker on an open connection, after       *)
(* initialize(), receives frames of every kind.                            *)
(***************************************************************************)
DispatchConfigs ==
    {c \in [mock_trading : {TRUE},
            min_trade_size_sol : {1},
            max_trade_size_sol : {MaxSize},
            daily_trade_limit_sol : DailyLimits,
            retry_delay : {1},
            backoff_factor : {2},
            encryption_enabled : BOOLEAN,
            worker_private_key_x25519 : {TRUE},
            coordinator_public_key_x25519 : {NoKey, "pk"}] :
        c.encryption_enabled \/ c.coordinator_public_key_x25519 = NoKey}

InitDispatch ==
    /\ config \in DispatchConfigs
    /\ today = 0
    /\ trading_keypair = TRUE
    /\ daily_volume_used = 0
    /\ last_reset_day = 0
    /\ trade_stats = NoStats
    /\ is_running = TRUE
    /\ websocket = "open"
    /\ reconnect_attempts = 0
    /\ max_reconnect_attempts = 10
    /\ stats = [NoTraffic EXCEPT !.messages_sent = 1]
    /\ pc = "recv"
    /\ cmd = NoCommand
    /\ result = NoResult
    /\ attempt = 0
    /\ retry_delay = config.retry_delay
    /\ connections = 1
    /\ outbox = <<Framed(RegisterMessage,
                        InitializeEncryption(NoKey,
                                             config.coordinator_public_key_x25519))>>
    /\ waits = <<>>
    /\ failures = 0
    /\ ncmds = 0
    /\ cur = NoCur
    /\ shared_key = InitializeEncryption(NoKey, config.coordinator_public_key_x25519)
    /\ coordinator_public_key = config.coordinator_public_key_x25519
    /\ wallets = {}
    /\ frame = NoFrame
    /\ registered_on = 0
    /\ nframes = 0
    /\ codec = NoCodec
    /\ resources = Connected_Resources
    /\ stopper = NoStopper

NextDispatch ==
    \/ FrameRejected
    \/ HandleRegistrationSuccess
    \/ HandleRegistrationError
    \/ HandleHeartbeatRequest
    \/ HandleWalletAssignment
    \/ HandleStatusRequest
    \/ UnknownMessage
    \/ PumpCommandFrame
    \/ BalanceReturned
    \/ MockTradeDone
    \/ PumpResponseSent
    \/ PeerClose
    \/ MessageHandlerEnds

SpecDispatch == InitDispatch /\ [][NextDispatch]_vars

(***************************************************************************)
(* The worker specification: run() from its start, with the registration   *)
(* answers and pump_commands of each connection; trades are mock trades.   *)
(***************************************************************************)
WorkerConfigs ==
    [mock_trading : {TRUE},
     min_trade_size_sol : {1},
     max_trade_size_sol : {MaxSize},
     daily_trade_limit_sol : DailyLimits,
     retry_delay : {1},
     backoff_factor : {2},
     encryption_enabled : BOOLEAN,
     worker_private_key_x25519 : {TRUE},
     coordinator_public_key_x25519 : {NoKey, "pk"}]

InitWorker ==
    /\ config \in WorkerConfigs
    /\ today = 0
    /\ trading_keypair = TRUE
    /\ daily_volume_used = 0
    /\ last_reset_day = 0
    /\ trade_stats = NoStats
    /\ is_running = FALSE
    /\ websocket = "none"
    /\ reconnect_attempts = 0
    /\ max_reconnect_attempts = 3
    /\ stats = NoTraffic
    /\ pc = "start"
    /\ cmd = NoCommand
    /\ result = NoResult
    /\ attempt = 0
    /\ retry_delay = config.retry_delay
    /\ outbox = <<>>
    /\ waits = <<>>
    /\ failures = 0
    /\ connections = 0
    /\ ncmds = 0
    /\ cur = NoCur
    /\ shared_key = NoKey
    /\ coordinator_public_key = config.coordinator_public_key_x25519
    /\ wallets = {}
    /\ frame = NoFrame
    /\ registered_on = 0
    /\ nframes = 0
    /\ codec = NoCodec
    /\ resources = NoResources
    /\ stopper = NoStopper

NextWorker ==
    \/ RunStarts
    \/ Initialized
    \/ ConnectSucceeds
    \/ ConnectFails
    \/ RegistrationSent
    \/ RegistrationSendFails
    \/ BackoffDone
    \/ GiveUp
    \/ PeerClose
    \/ MessageHandlerEnds
    \/ CooldownDone
    \/ SignalShutdown
    \/ HandleRegistrationSuccess
    \/ HandleRegistrationError
    \/ PumpCommandFrame
    \/ BalanceReturned
    \/ MockTradeDone
    \/ PumpResponseSent

SpecWorker == InitWorker /\ [][NextWorker]_vars

(***************************************************************************)
(* Properties.  cur is the record of the command in hand: what its         *)
(* validation saw and what its execution did.                              *)
(***************************************************************************)
WithinSizeBounds(amount_sol) ==
    /\ config.min_trade_size_sol <= amount_sol
    /\ amount_sol <= config.max_trade_size_sol

\* the balance the validation saw covers amount_sol plus the 10% margin
BalanceCovers(amount_sol) ==
    /\ cur.balance >= 0
    /\ cur.balance >= amount_sol * 11

\* daily_volume_used as the command found it, after the reset if one was due
VolumeBase == IF cur.used_at_check >= 0 THEN cur.used_at_check ELSE cur.used_at_entry

\* the responses on the wire that carry command_id `id`
ResponsesTo(id) ==
    {i \in 1..Len(outbox) :
        /\ outbox[i].type \in {"pump_result", "pump_error"}
        /\ outbox[i].command_id = id}

\* C1: the size bounds are inclusive. A command with a token address, handled
\* with a wallet, is rejected for its size when amount_sol is above
\* max_trade_size_sol or below min_trade_size_sol. A command with
\* min_trade_size_sol <= amount_sol <= max_trade_size_sol, the two ends
\* included, is never rejected for its size: when the daily limit allows it, it
\* goes on to the balance query, and it passes validation when the balance
\* covers it.
C1_SizeBoundsInclusive ==
    (cur.phase # "none" /\ cmd.token_address # "" /\ trading_keypair) =>
        /\ ~WithinSizeBounds(cmd.amount_sol) =>
              /\ cur.phase = "rejected"
              /\ result.error_message \in {"size_max", "size_min"}
              /\ ~cur.submitted
        /\ WithinSizeBounds(cmd.amount_sol) =>
              /\ result.error_message \notin {"size_max", "size_min"}
              /\ cur.used_at_check + cmd.amount_sol <= config.daily_trade_limit_sol =>
                    IF cur.balance < 0
                    THEN cur.phase = "validating" /\ pc = "balance"
                    ELSE (cur.phase = "passed") = BalanceCovers(cmd.amount_sol)

\* C1 witness: a command of exactly max_trade_size_sol, above the minimum, has
\* passed validation and been answered.
C1_Witness ==
    /\ cur.phase = "passed"
    /\ cur.done
    /\ cmd.amount_sol = config.max_trade_size_sol
    /\ config.min_trade_size_sol < config.max_trade_size_sol

\* C2: daily_volume_used never exceeds the daily limit, and a command that
\* would take it over the limit is rejected with no transaction built or
\* submitted.
C2_DailyLimitHolds ==
    /\ daily_volume_used <= config.daily_trade_limit_sol
    /\ (cur.used_at_check >= 0
          /\ cur.used_at_check + cmd.amount_sol > config.daily_trade_limit_sol) =>
           /\ cur.phase = "rejected"
           /\ ~cur.built
           /\ ~cur.submitted

\* C2 witness: a command of allowed size is rejected for the daily limit after
\* volume was booked earlier the same day.
C2_Witness ==
    /\ cur.phase = "rejected"
    /\ result.error_message = "daily_limit"
    /\ cur.used_at_check > 0
    /\ daily_volume_used = cur.used_at_check

\* C3 (as claimed): once execute_pump_trade has returned, daily_volume_used is
\* the volume it found plus amount_sol when the result says success, in real
\* and in mock mode, and the volume it found when the result says failure.
C3_VolumeBookedOnSuccess ==
    cur.results = 1 =>
        daily_volume_used =
            IF result.success THEN VolumeBase + cmd.amount_sol ELSE VolumeBase

\* C3, real trading only: the same statement with mock trading off.
C3_RealModeOnly == config.mock_trading \/ C3_VolumeBookedOnSuccess

\* C4 (as claimed): every command that passed validation and was executed, real
\* or mock, adds one to total_trades and one to exactly one of
\* successful_trades and failed_trades, by its outcome.
C4_StatsOncePerAttempt ==
    (cur.phase = "passed" /\ cur.results = 1) =>
        /\ trade_stats.total_trades = cur.stats_at_entry.total_trades + 1
        /\ trade_stats.successful_trades =
               cur.stats_at_entry.successful_trades + (IF result.success THEN 1 ELSE 0)
        /\ trade_stats.failed_trades =
               cur.stats_at_entry.failed_trades + (IF result.success THEN 0 ELSE 1)

\* C5: a transaction is built, signed or handed to the gateway, and the real
\* trade's gateway calls are entered, only for a command that has passed every
\* validation check.
C5_ValidationGatesExecution ==
    (cur.built \/ cur.submitted
        \/ pc \in {"token_info", "calc_amount", "build_tx", "submit", "confirm"}) =>
        /\ cur.phase = "passed"
        /\ cmd.token_address # ""
        /\ trading_keypair
        /\ WithinSizeBounds(cmd.amount_sol)
        /\ cur.used_at_check >= 0
        /\ cur.used_at_check + cmd.amount_sol <= config.daily_trade_limit_sol
        /\ BalanceCovers(cmd.amount_sol)

\* C5 witness: a validated command's transaction is with the gateway, waiting
\* for confirmation.
C5_Witness == cur.submitted /\ pc = "confirm"

\* C6 (as claimed): when a command's limit check runs on a later day than the
\* last reset, the old volume does not count (the check starts from 0),
\* last_reset_day becomes that day, and once the trade has succeeded
\* daily_volume_used is its amount.
C6_DailyReset ==
    (cur.day_at_check >= 0 /\ cur.day_at_check > cur.reset_at_entry) =>
        /\ cur.used_at_check = 0
        /\ last_reset_day = cur.day_at_check
        /\ (cur.results = 1 /\ result.success) => daily_volume_used = cmd.amount_sol

\* C6, real trading only: the same statement with mock trading off.
C6_RealModeOnly == config.mock_trading \/ C6_DailyReset

\* C7: a trade is executed (mock result returned, or transaction built or
\* submitted) only when the balance seen is at least amount_sol * 1.10; a lower
\* balance, or a failed balance query (which counts as 0), rejects the command
\* and nothing is built or submitted.
C7_BalanceMargin ==
    /\ (cur.built \/ cur.submitted \/ (cur.results = 1 /\ result.success)) =>
           BalanceCovers(cmd.amount_sol)
    /\ (cur.balance >= 0 /\ cur.balance < cmd.amount_sol * 11) =>
           /\ cur.phase = "rejected"
           /\ result.error_message = "balance"
           /\ ~cur.built
           /\ ~cur.submitted
    /\ cur.balance_failed => (cur.balance = 0 /\ cur.phase = "rejected")

\* C7 witness: a transaction was submitted on a balance one tenth of a unit
\* above amount_sol * 1.10.
C7_Witness == cur.submitted /\ cur.balance = cmd.amount_sol * 11 + 1

\* C8 (as claimed): a command rejected by validation and answered on an open
\* transport is answered with a pump_error carrying its command_id, and
\* is_running and the transport are as they were.
C8_RejectionSendsPumpError ==
    (cur.done /\ cur.phase = "rejected" /\ websocket = "open") =>
        /\ \E i \in ResponsesTo(cmd.command_id) : outbox[i].type = "pump_error"
        /\ <<is_running, websocket>> = cur.conn_at_entry

\* C9: a command produces at most one TradeResult and at most one response, and
\* once handled on a transport that stayed open exactly one of each, the
\* response carrying its command_id; no command is ever answered twice.
C9_OneResultOneResponse ==
    /\ cur.results <= 1
    /\ \A id \in 1..ncmds : Cardinality(ResponsesTo(id)) <= 1
    /\ (cur.done /\ websocket = "open") =>
           /\ cur.results = 1
           /\ Cardinality(ResponsesTo(cmd.command_id)) = 1
           /\ Len(outbox) = cur.sent_at_entry + 1
    /\ Cardinality(ResponsesTo(0)) = 0

\* C9 witness: the second command, a failed one, has been answered on the open
\* transport.
C9_Witness ==
    /\ cur.done
    /\ websocket = "open"
    /\ cmd.command_id = 2
    /\ ~result.success
    /\ Cardinality(ResponsesTo(2)) = 1

RECURSIVE Pow(_, _)
Pow(b, n) == IF n = 0 THEN 1 ELSE b * Pow(b, n - 1)

\* connect_to_coordinator has returned False on its own, the worker still
\* running, after three failures with retry_delay 1, backoff_factor 2 and a
\* reconnect limit of 3
GaveUpAfterThree ==
    /\ pc = "give_up"
    /\ is_running
    /\ config.retry_delay = 1
    /\ config.backoff_factor = 2
    /\ max_reconnect_attempts = 3
    /\ failures = 3

\* C10 (as claimed): with retry_delay 1.0, backoff_factor 2.0 and the reconnect
\* limit 3, three failures in a row produce the waits 1.0, 2.0, 4.0, one after
\* each failure, before connect_to_coordinator gives up.
C10_BackoffAsClaimed == GaveUpAfterThree => waits = <<1, 2, 4>>

\* C10 (amended): with those settings the waits are 1.0, 2.0: one wait after
\* each failure but the last, each the previous one times the backoff factor;
\* the failure that reaches the limit is followed by no wait. In general, when
\* connect_to_coordinator gives up while running, it has waited once less than
\* it has failed, the i-th wait being retry_delay * backoff_factor^(i-1).
C10_BackoffSequence ==
    /\ GaveUpAfterThree => waits = <<1, 2>>
    /\ (pc = "give_up" /\ is_running) =>
           /\ reconnect_attempts = max_reconnect_attempts
           /\ Len(waits) = failures - 1
           /\ \A i \in 1..Len(waits) :
                  waits[i] = config.retry_delay * Pow(config.backoff_factor, i - 1)

\* C10 witness: it has given up after three failures and the two waits 1, 2.
C10_Witness == GaveUpAfterThree /\ waits = <<1, 2>>

\* C11: connect_to_coordinator gives up exactly at the limit. While the worker
\* runs it returns False only with reconnect_attempts = max_reconnect_attempts
\* (after exactly that many failures when no connection succeeded), it starts or
\* waits for an attempt only below the limit, and once it has returned False no
\* attempt follows. Every failure adds one to reconnect_attempts, every
\* successful connection sets it to zero, and nothing else changes it, so
\* failures before a success do not count toward the limit.
C11_ReconnectLimit ==
    /\ [](/\ reconnect_attempts <= max_reconnect_attempts
          /\ (pc = "give_up" /\ is_running) =>
                 /\ reconnect_attempts = max_reconnect_attempts
                 /\ connections = 0 => failures = max_reconnect_attempts
          /\ pc \in {"connecting", "backoff"} =>
                 reconnect_attempts < max_reconnect_attempts)
    /\ [][/\ connections' = connections + 1 => reconnect_attempts' = 0
          /\ failures' = failures + 1 => reconnect_attempts' = reconnect_attempts + 1
          /\ reconnect_attempts' # reconnect_attempts =>
                 (connections' = connections + 1 \/ failures' = failures + 1)
          /\ pc = "give_up" => pc' \in {"give_up", "stopped"}]_vars

\* C11 witness: it has given up while running, at the limit, after more
\* failures than the limit because a connection succeeded in between.
C11_Witness ==
    /\ pc = "give_up"
    /\ is_running
    /\ connections >= 1
    /\ reconnect_attempts = max_reconnect_attempts
    /\ failures > max_reconnect_attempts

\* frame f is a JSON message, plain or in an envelope sealed with the session
\* key held
Decodable(f, key) ==
    /\ f.wire = "json"
    /\ f.envelope = "none" \/ (f.envelope = "sealed" /\ key = "k")

\* the step processes a frame, and the frame is a decodable one of type `type`
Handles(type) ==
    /\ nframes' = nframes + 1
    /\ frame'.type = type
    /\ Decodable(frame', shared_key)

\* where the main task is once connect_to_coordinator has returned True
ConnectedPcs == {"recv", "balance", "mock_sleep", "token_info", "calc_amount",
                 "build_tx", "submit", "confirm", "send_result", "stopped"}

\* the register frames sent so far
Registrations == {i \in 1..Len(outbox) : outbox[i].type = "register"}

\* once stopped on a connection, the worker opens no transport, sends no
\* register frame and does not go back to connecting
NeverReconnects ==
    (~is_running /\ pc \in ConnectedPcs) =>
        /\ ~is_running'
        /\ pc' \in ConnectedPcs
        /\ connections' = connections
        /\ Registrations' = Registrations

\* C12 (as claimed): the step that handles a registration_error leaves
\* is_running false and the transport not open, and from then on the worker
\* neither connects nor registers again.
C12_RegistrationErrorFatal ==
    [][/\ Handles("registration_error") =>
              /\ ~is_running'
              /\ websocket' # "open"
              /\ pc' \in ConnectedPcs
       /\ NeverReconnects]_vars

\* C12, for a registration_error that finds the worker running: the same
\* statement.
C12_WhileRunning ==
    [][/\ (is_running /\ Handles("registration_error")) =>
              /\ ~is_running'
              /\ websocket' # "open"
              /\ pc' \in ConnectedPcs
       /\ NeverReconnects]_vars

\* the main task is inside _handle_pump_command
ExecutingPcs == {"balance", "mock_sleep", "token_info", "calc_amount", "build_tx",
                 "submit", "confirm", "send_result"}

\* a registration_success has arrived on the connection in use
Registered == registered_on = connections

\* C13 (as claimed): a pump_command is executed, and a wallet_assignment
\* stored, only on a connection on which a registration_success has arrived
\* before it.
C13_ActiveOnlyAfterAck ==
    /\ [](pc \in ExecutingPcs => Registered)
    /\ [][wallets' # wallets => Registered]_vars

\* shutdown() has run: is_running was set by run() and cleared again
ShutdownCompleted == ~is_running /\ pc # "start"

\* C14 (as claimed): once shutdown has completed, whatever the main task was
\* parked at when the stop signal came, no transport is open, none is opened,
\* and no further frame is dispatched.
C14_StopLeavesNoTransport ==
    /\ [](ShutdownCompleted => websocket # "open")
    /\ [][ShutdownCompleted =>
              /\ connections' = connections
              /\ ncmds' = ncmds
              /\ nframes' = nframes]_vars

\* the step ends message_handler: the main task leaves the receive loop
ReceiveLoopEnds == pc = "recv" /\ pc' \notin ({"recv"} \cup ExecutingPcs)

\* C15: when the receive loop of an established connection ends and the worker
\* is running, run() sleeps the cool-down, opening nothing meanwhile, and then
\* enters connect_to_coordinator with the configured retry delay; when the
\* worker has been stopped, before or during the cool-down, run() ends instead,
\* and no connection attempt is started by a stopped worker.
C15_OuterLoop ==
    [][/\ (ReceiveLoopEnds /\ is_running) =>
              /\ pc' = "cooldown"
              /\ connections' = connections
       /\ (ReceiveLoopEnds /\ ~is_running) => pc' = "stopped"
       /\ (pc = "cooldown" /\ pc' # "cooldown") =>
              IF is_running
              THEN /\ pc' = "connecting"
                   /\ retry_delay' = config.retry_delay
                   /\ waits' = <<>>
              ELSE pc' = "stopped"
       /\ (pc' = "connecting" /\ pc # "connecting") => is_running
       /\ pc = "stopped" => pc' = "stopped"]_vars

\* C15 witness: after the first connection was registered and then lost, the
\* running worker has slept the cool-down and is connecting again.
C15_Witness ==
    /\ pc = "connecting"
    /\ is_running
    /\ connections = 1
    /\ websocket = "closed"
    /\ Registrations # {}
    /\ waits = <<>>

\* the step leaves everything but the counters of self.stats as it was, and
\* the main task in the receive loop
NothingBut(counters) ==
    /\ pc' = "recv"
    /\ stats' = counters
    /\ UNCHANGED <<outbox, wallets, shared_key, coordinator_public_key,
                   registered_on, is_running, websocket, reconnect_attempts,
                   connections>>
    /\ UNCHANGED engineVars

\* C16: errors are contained at the message boundary. A frame that is no JSON,
\* an envelope of the wrong field count, one that fails authentication and one
\* that arrives while no session key exists are dropped: nothing but the
\* received counter changes (it counts what parsed as JSON). When a handler
\* raises (the key exchange of a registration_success, the key of a
\* wallet_assignment, the send of any response) nothing that follows the
\* failing statement takes effect: no frame is sent, messages_sent and
\* last_heartbeat stay, the wallet table stays unless the failure is the send.
\* In every case the transport, is_running and the session key are as before
\* and the main task is back in the receive loop; so it is after a failed send
\* of a pump_result.
C16_ErrorsContained ==
    [][/\ (nframes' = nframes + 1 /\ ~Decodable(frame', shared_key)) =>
              NothingBut(IF frame'.wire = "json"
                         THEN [stats EXCEPT !.messages_received = @ + 1]
                         ELSE stats)
       /\ (nframes' = nframes + 1 /\ frame'.fault # "none") =>
              /\ pc' = "recv"
              /\ UNCHANGED <<websocket, is_running, shared_key, outbox>>
              /\ stats'.messages_sent = stats.messages_sent
              /\ stats'.last_heartbeat = stats.last_heartbeat
              /\ frame'.fault # "send" => wallets' = wallets
       /\ (pc = "send_result" /\ pc' # "send_result") =>
              /\ pc' = "recv"
              /\ UNCHANGED <<websocket, is_running, shared_key>>]_vars

\* C16 witness: after a frame that was no JSON (it is not counted as
\* received), the next frame, a wallet_assignment, has been handled and
\* answered on the same open transport.
C16_Witness ==
    /\ nframes = 2
    /\ stats.messages_received = 1
    /\ frame.type = "wallet_assignment"
    /\ frame.fault = "none"
    /\ wallets # {}
    /\ websocket = "open"
    /\ pc = "recv"

\* the error responses on the wire
ErrorResponses == {i \in 1..Len(outbox) : outbox[i].type \in {"pump_error", "error"}}

\* C17 (as claimed): whenever the handler of a frame raises while the
\* transport is open, an error response goes to the coordinator.
C17_FailureSendsErrorResponse ==
    [][(nframes' = nframes + 1 /\ Decodable(frame', shared_key)
          /\ frame'.fault # "none" /\ websocket = "open") =>
           ErrorResponses' # ErrorResponses]_vars

\* C18: a decodable message of a type without a handler changes nothing but
\* messages_received, which grows by one: no frame is sent, the wallet table,
\* the keys, the limit state, the trade statistics, is_running and the
\* transport are as before, and the receive loop goes on.
C18_UnknownIgnored ==
    [][Handles(UnknownType) =>
           NothingBut([stats EXCEPT !.messages_received = @ + 1])]_vars

\* C18 witness: a message of unknown type came in an authentic envelope after
\* a wallet had been assigned, and the worker is still receiving.
C18_Witness ==
    /\ frame.type = UnknownType
    /\ frame.envelope = "sealed"
    /\ frame.fault = "none"
    /\ nframes = 2
    /\ wallets # {}
    /\ websocket = "open"
    /\ pc = "recv"

\* C19 (as claimed): the step that handles a heartbeat_request on an open
\* transport sends exactly one frame, the heartbeat_ack, and sets
\* last_heartbeat; last_heartbeat changes in no step that does not send the
\* ack.
C19_HeartbeatAnswered ==
    [][/\ (Handles("heartbeat_request") /\ websocket = "open") =>
              /\ outbox' = Append(outbox, Framed(HeartbeatAck, shared_key))
              /\ stats'.last_heartbeat # NoHeartbeat
       /\ stats'.last_heartbeat # stats.last_heartbeat =>
              outbox' = Append(outbox, Framed(HeartbeatAck, shared_key))]_vars

\* C20: a wallet_assignment handled while no session key exists leaves the
\* wallet table as it was, sends nothing, and leaves the transport, is_running
\* and the receive loop as they were.
C20_WalletWithoutKey ==
    [][(Handles("wallet_assignment") /\ shared_key = NoKey) =>
           /\ wallets' = wallets
           /\ outbox' = outbox
           /\ pc' = "recv"
           /\ UNCHANGED <<websocket, is_running, shared_key>>]_vars

\* C20 witness: a wallet_assignment has failed for want of a session key on an
\* open transport, and the worker is receiving.
C20_Witness ==
    /\ frame.type = "wallet_assignment"
    /\ frame.fault = "wallet_key"
    /\ shared_key = NoKey
    /\ wallets = {}
    /\ websocket = "open"
    /\ is_running
    /\ pc = "recv"

\* the wallet_assigned responses the step appends to the outbox
NewWalletResponses ==
    {outbox'[i] : i \in {j \in DOMAIN outbox' : /\ j > Len(outbox)
                                                 /\ outbox'[j].type = "wallet_assigned"}}

\* C21: the wallet table changes only in the step that handles a
\* wallet_assignment whose encrypted_private_key was sealed with the session
\* key the worker holds, and only at the index that message names; and every
\* wallet_assigned response sent names an index and a public key of an entry
\* the table holds when it is sent.
C21_WalletsOnlyByAssignment ==
    [][/\ wallets' # wallets =>
              /\ nframes' = nframes + 1
              /\ frame'.type = "wallet_assignment"
              /\ Decodable(frame', shared_key)
              /\ shared_key # NoKey
              /\ frame'.sealed_key = shared_key
              /\ \A e \in (wallets' \ wallets) \cup (wallets \ wallets') :
                     e[1] = frame'.wallet_index
              /\ <<frame'.wallet_index, frame'.wallet_key>> \in wallets'
       /\ \A m \in NewWalletResponses :
              /\ frame'.type = "wallet_assignment"
              /\ nframes' = nframes + 1
              /\ m.wallet_index = frame'.wallet_index
              /\ \E e \in wallets' : /\ e[1] = m.wallet_index
                                     /\ e[2] \in {"w1", "w2"}
                                     /\ m.public_key = IF e[2] = "w1" THEN "W1" ELSE "W2"]_vars

\* C21 witness: two assignments of index 0 were stored and answered, the
\* second replacing the entry of the first.
C21_Witness ==
    /\ wallets = {<<0, "w2">>}
    /\ \E i, j \in DOMAIN outbox :
        /\ i < j
        /\ outbox[i].type = "wallet_assigned" /\ outbox[i].public_key = "W1"
        /\ outbox[j].type = "wallet_assigned" /\ outbox[j].public_key = "W2"
        /\ outbox[j].wallet_index = 0
    /\ shared_key # NoKey

(***************************************************************************)
(* The envelope codec: _send_message, _encrypt_message and                 *)
(* EncryptionUtils.encrypt_aes_gcm one way; _process_message,              *)
(* _decrypt_message and decrypt_aes_gcm the other.                         *)
(*                                                                         *)
(* A byte string and a text are sequences of characters.  The JSON texts   *)
(* and the byte strings are written in ByteAlphabet, base64 in             *)
(* Base64Alphabet.  AES in counter mode is a shift of each byte by a key   *)
(* stream made of the key, the nonce and the position; the GCM tag is an    *)
(* injective function of the key, the nonce and the ciphertext.            *)
(***************************************************************************)

ByteAlphabet == <<"{", "}", ":", "p", "w", "0", "1">>
Base64Alphabet == <<"A", "B", "C", "D", "E", "F", "G">>

\* characters that stand on the wire and belong to neither alphabet
EncryptedMark == "e"
StrayCharacter == "!"

InAlphabet(alphabet, c) == \E i \in DOMAIN alphabet : alphabet[i] = c
IndexIn(alphabet, c) == CHOOSE i \in DOMAIN alphabet : alphabet[i] = c
InBase64(c) == InAlphabet(Base64Alphabet, c)

\* the session keys of the two ends, the nonces os.urandom returns, and the
\* messages followed through the codec
SessionKeys == {"k", "k2"}
Nonces == {<<"0">>, <<":">>}
CodecMessages == [type : {"pump_result", "wallet_assigned"}, command_id : {0, 1}]
NoMessage == [type |-> "none", command_id |-> 0]

\* json.dumps: the text of a message; that of an envelope holds its data
\* between the mark of its type and the closing brace
JsonDumps(message) ==
    IF message.type = "encrypted"
    THEN <<"{", EncryptedMark, ":">> \o message.data \o <<"}">>
    ELSE <<"{", IF message.type = "pump_result" THEN "p" ELSE "w", ":",
           IF message.command_id = 0 THEN "0" ELSE "1", "}">>

\* json.loads: the message of a text, or a fault when it is no JSON
JsonLoads(text) ==
    IF /\ Len(text) >= 4
       /\ text[1] = "{" /\ text[3] = ":" /\ text[Len(text)] = "}"
       /\ text[2] = EncryptedMark
    THEN [fault |-> "none",
          message |-> [type |-> "encrypted", data |-> SubSeq(text, 4, Len(text) - 1)]]
    ELSE IF /\ Len(text) = 5
            /\ text[1] = "{" /\ text[3] = ":" /\ text[5] = "}"
            /\ text[2] \in {"p", "w"}
            /\ text[4] \in {"0", "1"}
    THEN [fault |-> "none",
          message |-> [type |-> IF text[2] = "p" THEN "pump_result"
                                ELSE "wallet_assigned",
                       command_id |-> IF text[4] = "0" THEN 0 ELSE 1]]
    ELSE [fault |-> "json", message |-> NoMessage]

\* variant: the bytes go on the wire as they are
B64Encode_Raw(bytes) == bytes

\* base64.b64encode: one character of the base64 alphabet for each byte
B64Encode(bytes) ==
    [i \in 1..Len(bytes) |-> Base64Alphabet[IndexIn(ByteAlphabet, bytes[i])]]

\* base64.b64decode (validate=False): characters outside the alphabet are
\* dropped, the others decoded
B64Decode(text) ==
    LET kept == SelectSeq(text, InBase64)
    IN  [i \in 1..Len(kept) |-> ByteAlphabet[IndexIn(Base64Alphabet, kept[i])]]

\* the key stream of the cipher at a position
KeyStream(key, nonce, i) ==
    (IF key = "k" THEN 1 ELSE 2) * i
    + (IF Len(nonce) = 1 THEN IndexIn(ByteAlphabet, nonce[1]) ELSE 0)

Shifted(byte, n) ==
    ByteAlphabet[((IndexIn(ByteAlphabet, byte) - 1 + n) % Len(ByteAlphabet)) + 1]

\* the tag AES-GCM computes over a ciphertext under a key and a nonce
AuthTag(key, nonce, ciphertext) ==
    <<IF key = "k" THEN "0" ELSE "1", IF Len(nonce) = 1 THEN "1" ELSE "0">>
    \o nonce \o ciphertext

\* variant: every message is sealed under one fixed nonce
Seal_FixedNonce(plaintext, key, nonce) ==
    LET ciphertext == [i \in 1..Len(plaintext) |->
                           Shifted(plaintext[i], KeyStream(key, <<"0">>, i))]
    IN  <<ciphertext, <<"0">>, AuthTag(key, <<"0">>, ciphertext)>>

\* AESGCM(key).encrypt(nonce, plaintext, None), cut into the ciphertext and
\* the tag of its last 16 bytes
Seal(plaintext, key, nonce) ==
    LET ciphertext == [i \in 1..Len(plaintext) |->
                           Shifted(plaintext[i], KeyStream(key, nonce, i))]
    IN  <<ciphertext, nonce, AuthTag(key, nonce, ciphertext)>>

\* encrypt_aes_gcm: ciphertext, nonce and tag, each in base64
EncryptAesGcm(plaintext, key, nonce) ==
    LET sealed == Seal(plaintext, key, nonce)
    IN  <<B64Encode(sealed[1]), B64Encode(sealed[2]), B64Encode(sealed[3])>>

\* variant: the plaintext is returned whatever the tag
DecryptAesGcm_Unverified(ciphertext_base64, nonce_base64, tag_base64, key) ==
    LET ciphertext == B64Decode(ciphertext_base64)
        nonce == B64Decode(nonce_base64)
    IN  IF key = NoKey
        THEN [fault |-> "decrypt", text |-> <<>>]
        ELSE [fault |-> "none",
              text |-> [i \in 1..Len(ciphertext) |->
                            Shifted(ciphertext[i],
                                    3 * Len(ByteAlphabet) - KeyStream(key, nonce, i))]]

\* decrypt_aes_gcm: the three parts are decoded and AESGCM(key).decrypt is
\* given nonce and ciphertext + tag; it raises unless the tag is that of the
\* ciphertext under the key and the nonce, and every exception comes out as a
\* ValueError
DecryptAesGcm(ciphertext_base64, nonce_base64, tag_base64, key) ==
    LET ciphertext == B64Decode(ciphertext_base64)
        nonce == B64Decode(nonce_base64)
        tag == B64Decode(tag_base64)
    IN  IF key = NoKey \/ tag # AuthTag(key, nonce, ciphertext)
        THEN [fault |-> "decrypt", text |-> <<>>]
        ELSE [fault |-> "none",
              text |-> [i \in 1..Len(ciphertext) |->
                            Shifted(ciphertext[i],
                                    3 * Len(ByteAlphabet) - KeyStream(key, nonce, i))]]

\* _encrypt_message: f"{ciphertext}:{nonce}:{tag}"
EncryptMessage(message_json, key, nonce) ==
    LET parts == EncryptAesGcm(message_json, key, nonce)
    IN  parts[1] \o <<":">> \o parts[2] \o <<":">> \o parts[3]

\* str.split(":")
RECURSIVE Split(_)
Split(text) ==
    IF \A i \in DOMAIN text : text[i] # ":"
    THEN <<text>>
    ELSE LET i == CHOOSE j \in DOMAIN text :
                      /\ text[j] = ":"
                      /\ \A l \in 1..(j - 1) : text[l] # ":"
         IN  <<SubSeq(text, 1, i - 1)>> \o Split(SubSeq(text, i + 1, Len(text)))

\* _decrypt_message: three parts, or a ValueError
DecryptMessage(encrypted_data, key) ==
    LET parts == Split(encrypted_data)
    IN  IF Len(parts) # 3
        THEN [fault |-> "format", text |-> <<>>]
        ELSE DecryptAesGcm(parts[1], parts[2], parts[3], key)

\* _send_message: the text handed to websocket.send
SendWire(message, key, nonce) ==
    IF config.encryption_enabled /\ key # NoKey
    THEN JsonDumps([type |-> "encrypted",
                    data |-> EncryptMessage(JsonDumps(message), key, nonce)])
    ELSE JsonDumps(message)

\* _process_message down to the dispatch: the message the if/elif chain is
\* given, or the fault that ends the frame
ProcessWire(wire, key) ==
    LET outer == JsonLoads(wire)
    IN  IF outer.fault # "none" \/ outer.message.type # "encrypted"
        THEN outer
        ELSE LET plain == DecryptMessage(outer.message.data, key)
             IN  IF plain.fault # "none"
                 THEN [fault |-> plain.fault, message |-> NoMessage]
                 ELSE JsonLoads(plain.text)

codecRest == <<config, today, trading_keypair, daily_volume_used, last_reset_day,
               trade_stats, is_running, websocket, reconnect_attempts,
               max_reconnect_attempts, stats, pc, cmd, result, attempt, retry_delay,
               outbox, waits, failures, connections, ncmds, cur, shared_key,
               coordinator_public_key, wallets, frame, registered_on, nframes,
               resources, stopper>>

\* a message is encoded as _send_message does, under the session key of the
\* sending end (the worker itself, or a peer holding another key or none);
\* encrypt_aes_gcm draws its nonce from os.urandom at each call
CodecSend ==
    /\ codec.phase \in {"idle", "received", "received_altered"}
    /\ codec.sends < MaxSends
    /\ \E message \in CodecMessages, key \in {NoKey} \cup SessionKeys,
          nonce \in Nonces :
        codec' = [phase |-> "sent", message |-> message, key |-> key,
                  nonce |-> nonce,
                  sealed |-> IF config.encryption_enabled /\ key # NoKey
                             THEN Seal(JsonDumps(message), key, nonce)
                             ELSE <<>>,
                  wire |-> SendWire(message, key, nonce),
                  decoded |-> NoMessage, fault |-> "none",
                  sends |-> codec.sends + 1,
                  used |-> IF config.encryption_enabled /\ key # NoKey
                           THEN codec.used \cup {<<key, nonce>>}
                           ELSE codec.used]
    /\ UNCHANGED codecRest

\* the text is altered on its way: one character replaced, or a stray
\* character put in
CodecAlter ==
    /\ codec.phase = "sent"
    /\ \/ \E i \in DOMAIN codec.wire,
             c \in {Base64Alphabet[j] : j \in DOMAIN Base64Alphabet}
                   \cup {":", StrayCharacter} :
            /\ c # codec.wire[i]
            /\ codec' = [codec EXCEPT !.phase = "altered", !.wire[i] = c]
       \/ \E i \in DOMAIN codec.wire :
            codec' = [codec EXCEPT
                        !.phase = "altered",
                        !.wire = SubSeq(@, 1, i) \o <<StrayCharacter>>
                                 \o SubSeq(@, i + 1, Len(@))]
    /\ UNCHANGED codecRest

\* the worker takes the text from the transport: _process_message under its
\* own session key
CodecReceive ==
    /\ codec.phase \in {"sent", "altered"}
    /\ LET processed == ProcessWire(codec.wire, shared_key)
       IN  codec' = [codec EXCEPT !.phase = IF @ = "sent" THEN "received"
                                            ELSE "received_altered",
                                  !.decoded = processed.message,
                                  !.fault = processed.fault]
    /\ UNCHANGED codecRest

NextCodec ==
    \/ CodecSend
    \/ CodecAlter
    \/ CodecReceive

SpecCodec == InitDispatch /\ [][NextCodec]_vars

\* the envelope in codec went out encrypted
WentEncrypted == config.encryption_enabled /\ codec.key # NoKey

\* C22: a message encoded by _send_message and decoded, unaltered, by
\* _process_message comes out as it went in: under the same session key at
\* both ends when it went encrypted, and under any key when it went as
\* plaintext.
C22_EnvelopeRoundTrip ==
    (/\ codec.phase = "received"
     /\ WentEncrypted => codec.key = shared_key)
        => /\ codec.fault = "none"
           /\ codec.decoded = codec.message

\* C22 witness: a message has gone round encrypted under the session key, with
\* a nonce whose byte is the separator of the envelope.
C22_Witness ==
    /\ codec.phase = "received"
    /\ WentEncrypted
    /\ codec.key = shared_key
    /\ codec.nonce = <<":">>
    /\ Len(Split(JsonLoads(codec.wire).message.data)) = 3
    /\ codec.decoded = codec.message
    /\ codec.decoded.type = "pump_result"

\* the ciphertext, nonce and tag bytes the text in codec holds, when it is an
\* envelope of three parts
PartsOnWire ==
    LET outer == JsonLoads(codec.wire)
        parts == IF outer.fault = "none" /\ outer.message.type = "encrypted"
                 THEN Split(outer.message.data)
                 ELSE <<>>
    IN  IF Len(parts) = 3
        THEN <<B64Decode(parts[1]), B64Decode(parts[2]), B64Decode(parts[3])>>
        ELSE <<>>

C23_WrongKey ==
    /\ codec.phase = "received"
    /\ WentEncrypted
    /\ shared_key # NoKey
    /\ codec.key # shared_key
    /\ codec.fault = "decrypt"

\* an envelope with a stray character in its base64 text holds the bytes that
\* were sealed and is accepted
StrayCharacterAccepted ==
    /\ codec.phase = "received_altered"
    /\ WentEncrypted
    /\ PartsOnWire = codec.sealed
    /\ codec.decoded = codec.message

\* the step handles a registration_success that carries a well-formed
\* coordinator key, on a worker that has encryption enabled and a private key
OffersValidKey ==
    /\ Handles("registration_success")
    /\ config.encryption_enabled
    /\ config.worker_private_key_x25519
    /\ frame'.offers \in {"pk", "pk2"}

\* the session key of a well-formed coordinator key
SessionKeyOf(public_key) == IF public_key = "pk" THEN "k" ELSE "k2"

\* C24 (as claimed): a registration_success that carries a well-formed
\* coordinator key other than the one the session key held was derived from
\* replaces the coordinator key, and the session key becomes the one derived
\* from the new key.
C24_SessionKeyFollowsPeerKey ==
    [][(/\ OffersValidKey
        /\ shared_key # NoKey
        /\ frame'.offers # coordinator_public_key)
           => /\ coordinator_public_key' = frame'.offers
              /\ shared_key' = SessionKeyOf(frame'.offers)]_vars

\* C25 (as claimed): a registration_success that carries a well-formed
\* coordinator key while no session key is held establishes the session key
\* derived from it.
C25_SessionKeyEstablished ==
    [][(OffersValidKey /\ shared_key = NoKey)
           => shared_key' = SessionKeyOf(frame'.offers)]_vars

\* the first well-formed key offered to a worker that holds none is taken and
\* the session key derived
C25_FirstKeyTaken ==
    /\ frame.type = "registration_success"
    /\ frame.offers = "pk2"
    /\ coordinator_public_key = "pk2"
    /\ shared_key = "k2"

\* the frames the step hands to the transport
NewFrames == {outbox'[i] : i \in {j \in DOMAIN outbox' : j > Len(outbox)}}

\* C26: a message sent while a session key is held (and encryption is
\* enabled) goes out in an encrypted envelope, a message sent while none is
\* held goes out as plaintext; a session key is held only with encryption
\* enabled, so nothing goes out as plaintext once it exists.
C26_OutboundEnvelope ==
    /\ [](shared_key # NoKey => config.encryption_enabled)
    /\ [][\A sent \in NewFrames :
              /\ shared_key # NoKey => sent.envelope = "encrypted"
              /\ shared_key = NoKey => sent.envelope = "plain"]_vars

\* C26 witness: the register frame went out as plaintext before the key
\* exchange, a response went out encrypted after it.
C26_Witness ==
    /\ shared_key # NoKey
    /\ \E i, j \in DOMAIN outbox :
        /\ i < j
        /\ outbox[i].type = "register" /\ outbox[i].envelope = "plain"
        /\ outbox[j].type \in {"wallet_assigned", "pump_result"}
        /\ outbox[j].envelope = "encrypted"

\* every check of the validation sequence holds for the command in hand, on
\* what the checks saw
Validated ==
    /\ cmd.token_address # ""
    /\ trading_keypair
    /\ WithinSizeBounds(cmd.amount_sol)
    /\ cur.used_at_check >= 0
    /\ cur.used_at_check + cmd.amount_sol <= config.daily_trade_limit_sol
    /\ BalanceCovers(cmd.amount_sol)

\* C27: in mock mode as in real mode a command passes validation exactly when
\* every check holds, and is rejected with a failed TradeResult otherwise; in
\* mock mode a command that passed gets a successful TradeResult whose
\* transaction id has the prefix "mock_", and no transaction is built or
\* handed to the gateway.
C27_MockLikeReal ==
    /\ cur.phase = "passed" => Validated
    /\ cur.phase = "rejected" =>
           /\ ~Validated
           /\ ~result.success
           /\ result.transaction_id = "none"
    /\ config.mock_trading =>
           /\ ~cur.built /\ ~cur.submitted
           /\ pc \notin {"token_info", "calc_amount", "build_tx", "submit", "confirm"}
           /\ (cur.phase = "passed" /\ cur.results = 1) =>
                  /\ result.success
                  /\ result.transaction_id = "mock_"
                  /\ result.amount_sol = cmd.amount_sol

\* C27 witness: in mock mode a command has passed validation and its
\* synthetic result is about to be sent.
C27_Witness ==
    /\ config.mock_trading
    /\ cur.phase = "passed"
    /\ cur.results = 1
    /\ result.transaction_id = "mock_"
    /\ pc = "send_result"

\* in mock mode a command is rejected for its balance
C27_MockRejects ==
    /\ config.mock_trading
    /\ cur.phase = "rejected"
    /\ result.error_message = "balance"

\* C29 (as claimed): when the status that ended the confirmation polling
\* reported an on-chain error, the TradeResult is a failure, and its error is
\* a rejection, not the error of an exhausted polling.
C29_OnChainRejectionFails ==
    (cur.results = 1 /\ cur.last_poll \in {"err", "confirmed_err"}) =>
        /\ ~result.success
        /\ result.error_message \notin {"confirm_timeout", "confirm_timeout_rpc",
                                        "confirm_timeout_rejected"}

\* a status with an on-chain error and no confirmation status, seen on the
\* last pass, ends in the error of an exhausted polling
C29_RejectionAsTimeout ==
    /\ cur.results = 1
    /\ cur.last_poll = "err"
    /\ ~result.success
    /\ result.error_message = "confirm_timeout_rejected"

\* polling that never saw a status ends in a failure
C29_TimeoutFails ==
    /\ cur.results = 1
    /\ cur.last_poll = "pending"
    /\ ~result.success
    /\ result.error_message = "confirm_timeout"

(***************************************************************************)
(* The shutdown specification: run() from its start, with the registration *)
(* frames, under the scheduling of asyncio: the main task, once it can     *)
(* run, runs (no fairness is asked of the peer or of the operator's        *)
(* signals).                                                               *)
(***************************************************************************)
MainTask ==
    \/ RunStarts
    \/ Initialized
    \/ ConnectSucceeds
    \/ ConnectFails
    \/ RegistrationSent
    \/ RegistrationSendFails
    \/ BackoffDone
    \/ GiveUp
    \/ MessageHandlerEnds
    \/ CooldownDone

NextStop ==
    \/ MainTask
    \/ PeerClose
    \/ SignalShutdown
    \/ HandleRegistrationSuccess
    \/ HandleRegistrationError

SpecStop == InitWorker /\ [][NextStop]_vars /\ WF_vars(MainTask)

\* a registration_error has just been handled, or connect_to_coordinator has
\* used up its attempts
RegistrationRejected == frame.type = "registration_error" /\ frame.fault = "none"
AttemptsExhausted == pc = "give_up" /\ reconnect_attempts >= max_reconnect_attempts

\* run() has returned with the transport, the clients and the engine released
ReleasedAndReturned ==
    /\ pc = "stopped"
    /\ ~is_running
    /\ websocket # "open"
    /\ resources.http_client = "closed"
    /\ resources.solana_client = "closed"
    /\ resources.trading_engine = "stopped"

\* C28 (as claimed): once a registration has been rejected or the reconnect
\* attempts are exhausted, the worker eventually has closed the transport, the
\* HTTP client and the gateway client, stopped the engine, and run() has
\* returned.
C28_FatalEndsInShutdown ==
    (RegistrationRejected \/ AttemptsExhausted) ~> ReleasedAndReturned

\* the status "stopped" is set at or after the fatal condition
C28_StatusStopped ==
    (RegistrationRejected \/ AttemptsExhausted) ~> resources.status = "stopped"

\* the same for a rejection that found the worker running or the transport
\* already closed
C28_WhileRunning ==
    ((RegistrationRejected /\ websocket # "open") \/ AttemptsExhausted)
        ~> ReleasedAndReturned

(***************************************************************************)
(* The trading specification with the operator's stop signal: shutdown()   *)
(* may run while a pump_command is in hand.  The date is held.             *)
(***************************************************************************)
NextTradeStop ==
    \/ ReceivePumpCommand
    \/ BalanceReturned
    \/ MockTradeDone
    \/ TokenInfoReturned
    \/ TokenAmountCalculated
    \/ TransactionBuilt
    \/ TransactionSubmitted
    \/ ConfirmationPolled
    \/ PumpResponseSent
    \/ PeerClose
    \/ MessageHandlerEnds
    \/ SignalShutdown

\* a worker with its trading wallet set, in either trading mode
InitTradeStop ==
    /\ InitTrade
    /\ trading_keypair
    /\ config.min_trade_size_sol = 1

SpecTradeStop == InitTradeStop /\ [][NextTradeStop]_vars

\* C30: a shutdown that runs while a pump_command is being executed leaves the
\* execution where it is; the execution goes on along its own path to a
\* TradeResult and to the sending of the response; and a response that finds
\* the transport closed is dropped, with the main task back in the receive
\* loop and the transport and is_running as the shutdown left them.
C30_TradeSurvivesStop ==
    /\ [](pc = "send_result" => (cur.results = 1 /\ result # NoResult))
    /\ [][/\ (pc \in ExecutingPcs /\ is_running /\ ~is_running') =>
                 /\ UNCHANGED <<pc, cmd, cur, result, attempt>>
                 /\ UNCHANGED engineVars
          /\ (pc \in ExecutingPcs /\ ~is_running) =>
                 /\ pc' \in ExecutingPcs \cup {"recv"}
                 /\ cmd' = cmd
                 /\ pc' = "recv" => (pc = "send_result" /\ cur'.done)
          /\ (pc = "send_result" /\ pc' # "send_result" /\ websocket # "open") =>
                 /\ outbox' = outbox
                 /\ pc' = "recv"
                 /\ UNCHANGED <<websocket, is_running, result>>]_vars

\* C30 witness: a command taken on a running worker with an open transport
\* was overtaken by the shutdown, went on to a successful TradeResult, and the
\* response was dropped at the closed transport.
C30_Witness ==
    /\ cur.conn_at_entry = <<TRUE, "open">>
    /\ ~is_running
    /\ websocket = "closed"
    /\ cur.done
    /\ cur.results = 1
    /\ result.success
    /\ ResponsesTo(cmd.command_id) = {}
    /\ pc = "recv"

(***************************************************************************)
(* The order of processing.                                                *)
(***************************************************************************)

\* no handler is under way: the main task is in the receive loop, and the
\* command it last took, if any, has been answered or dropped
HandlerIdle == pc = "recv" /\ (cur.phase = "none" \/ cur.done)

\* the step takes a frame from the transport
TakesFrame == ncmds' = ncmds + 1 \/ nframes' = nframes + 1

\* C31: frames are processed one at a time, in the order they arrive. A frame
\* is taken from the transport only when no handler is under way; while a
\* pump_command is executed it is the last frame taken, no other frame is taken
\* and its record is the only one; a message is sent either by the handler of
\* the frame taken in the same step or as the response to the command in hand,
\* so the responses to the commands stand in the outbox in the order of the
\* commands.
C31_FramesInOrder ==
    /\ [](/\ pc \in ExecutingPcs => (cmd.command_id = ncmds /\ ~cur.done)
          /\ \A i, j \in 1..Len(outbox) :
                 (/\ i < j
                  /\ outbox[i].type \in {"pump_result", "pump_error"}
                  /\ outbox[j].type \in {"pump_result", "pump_error"}) =>
                     outbox[i].command_id < outbox[j].command_id)
    /\ [][/\ TakesFrame => HandlerIdle
          /\ pc \in ExecutingPcs =>
                 /\ ~TakesFrame
                 /\ cmd' = cmd
                 /\ pc' \in ExecutingPcs \cup {"recv"}
          /\ Len(outbox') > Len(outbox) =>
                 /\ Len(outbox') = Len(outbox) + 1
                 /\ \/ (pc = "recv" /\ nframes' = nframes + 1)
                    \/ /\ pc = "send_result"
                       /\ outbox'[Len(outbox')].command_id = ncmds]_vars

\* C31 witness: two pump_commands were executed one after the other, each
\* answered before the next frame was taken, and the answers stand in order.
C31_Witness ==
    /\ ncmds = 2
    /\ HandlerIdle
    /\ Len(outbox) = 3
    /\ outbox[2].type = "pump_result" /\ outbox[2].command_id = 1
    /\ outbox[3].type = "pump_result" /\ outbox[3].command_id = 2

(***************************************************************************)
(* The nonces of encrypt_aes_gcm.                                          *)
(***************************************************************************)

\* the step is a call of _send_message that encrypts
Encrypts ==
    /\ codec'.sends = codec.sends + 1
    /\ config.encryption_enabled
    /\ codec'.key # NoKey

\* C32 (as claimed): no two encryptions under the same session key use the
\* same nonce.
C32_NoncesNeverRepeat ==
    [][Encrypts => <<codec'.key, codec'.nonce>> \notin codec.used]_vars

\* C32 (amended): every encryption uses the nonce os.urandom returned at that
\* call, one of the values of the source whatever was drawn before, and the
\* envelope carries that nonce and the ciphertext and tag made with it. Two
\* encryptions under one key differ in their nonce exactly when the source
\* returned two different values; nothing is kept of earlier nonces.
C32_NonceDrawnPerCall ==
    (codec.phase = "sent" /\ WentEncrypted) =>
        /\ codec.nonce \in Nonces
        /\ <<codec.key, codec.nonce>> \in codec.used
        /\ Len(PartsOnWire) = 3
        /\ PartsOnWire[2] = codec.nonce
        /\ PartsOnWire = codec.sealed
        /\ PartsOnWire[3] = AuthTag(codec.key, codec.nonce, PartsOnWire[1])

\* C32 witness: two encryptions under one session key, the second with another
\* nonce than the first.
C32_Witness ==
    /\ codec.sends = 2
    /\ codec.phase = "sent"
    /\ WentEncrypted
    /\ Cardinality(codec.used) = 2
    /\ \A u \in codec.used : u[1] = codec.key
    /\ PartsOnWire[2] = codec.nonce

(***************************************************************************)
(* The order of the validation steps.                                      *)
(***************************************************************************)

\* the step takes a pump_command and rejects it for one of `reasons` before
\* any await
RejectedAtEntryFor(reasons) ==
    /\ ncmds' = ncmds + 1
    /\ cur'.phase = "rejected"
    /\ result'.error_message \in reasons

\* C33 (as claimed): a pump_command rejected for a missing token address, an
\* uninitialized wallet or an amount outside the size bounds leaves
\* daily_volume_used and last_reset_day as they were, also when the date has
\* advanced since last_reset_day.
C33_RejectionLeavesLimits ==
    [][RejectedAtEntryFor({"token_missing", "no_wallet", "size_max", "size_min"}) =>
           UNCHANGED <<daily_volume_used, last_reset_day>>]_vars

\* the part of C33 that holds: the token and wallet checks come before
\* _check_trade_limits and leave the limit state alone
C33_TokenAndWalletFirst ==
    [][RejectedAtEntryFor({"token_missing", "no_wallet"}) =>
           UNCHANGED <<daily_volume_used, last_reset_day>>]_vars

\* a command was rejected for its size on a later day than the last reset, with
\* volume booked, and the rejection has reset the volume and moved the day
C33_ResetBeforeSizeCheck ==
    /\ cur.phase = "rejected"
    /\ result.error_message \in {"size_max", "size_min"}
    /\ cur.used_at_entry > 0
    /\ cur.reset_at_entry < cur.day_at_check
    /\ daily_volume_used = 0
    /\ last_reset_day = cur.day_at_check

(***************************************************************************)
(* The confirmation loop.                                                  *)
(***************************************************************************)

\* the step is one pass of the loop of _wait_for_confirmation; cur'.last_poll
\* is what get_signature_status answered
Polls == pc = "confirm" /\ (attempt' # attempt \/ pc' # "confirm")

\* the pass goes on to the next poll when one is left, and ends the wait with
\* a failed result when it was the last
PollsOnOrTimesOut ==
    IF attempt + 1 < max_retries
    THEN pc' = "confirm" /\ attempt' = attempt + 1
    ELSE pc' = "send_result" /\ ~result'.success

\* C34 (as claimed): _wait_for_confirmation polls at most max_retries times;
\* it returns at the first poll that reports a confirmation, stops polling at
\* the first poll that reports an on-chain rejection, and otherwise goes on to
\* the next poll, failing with a timeout after the last.
C34_PollingStopsAtOutcome ==
    /\ [](pc = "confirm" => attempt < max_retries)
    /\ [][Polls =>
            /\ cur'.last_poll \in {"confirmed", "confirmed_err"} =>
                   pc' = "send_result" /\ result'.success
            /\ cur'.last_poll = "err" => pc' # "confirm"
            /\ cur'.last_poll \in {"pending", "rpc_error"} => PollsOnOrTimesOut]_vars

\* what holds of C34: the bound, the return at the first confirmation, and the
\* timeout after the last poll; a rejection reported by a poll is treated like
\* a failed query
C34_PollingBounded ==
    /\ [](pc = "confirm" => attempt < max_retries)
    /\ [][Polls =>
            /\ cur'.last_poll \in {"confirmed", "confirmed_err"} =>
                   pc' = "send_result" /\ result'.success
            /\ cur'.last_poll \in {"pending", "rpc_error", "err"} =>
                   PollsOnOrTimesOut]_vars

\* a poll has reported the rejection and the loop is waiting for the next poll
C34_PolledOnAfterRejection ==
    /\ pc = "confirm"
    /\ cur.last_poll = "err"
    /\ attempt >= 1

(***************************************************************************)
(* The register frame of each connection.  The session specification:      *)
(* run() from its start, with the pump_commands of each connection; trades *)
(* are mock trades.                                                        *)
(***************************************************************************)
NextSession ==
    \/ RunStarts
    \/ Initialized
    \/ ConnectSucceeds
    \/ ConnectFails
    \/ RegistrationSent
    \/ RegistrationSendFails
    \/ BackoffDone
    \/ GiveUp
    \/ PeerClose
    \/ MessageHandlerEnds
    \/ CooldownDone
    \/ SignalShutdown
    \/ PumpCommandFrame
    \/ BalanceReturned
    \/ MockTradeDone
    \/ PumpResponseSent

\* encryption is left off: the frames go as plaintext
InitSession ==
    /\ InitWorker
    /\ ~config.encryption_enabled
    /\ config.coordinator_public_key_x25519 = NoKey

SpecSession == InitSession /\ [][NextSession]_vars


\* the frames sent on connection c, by their place in the outbox
SentOn(c) == {i \in 1..Len(outbox) : outbox[i].connection = c}
RegistersOn(c) == {i \in SentOn(c) : outbox[i].type = "register"}

\* the first frame sent on connection c is its register frame
RegisterFirstOn(c) ==
    \A i \in SentOn(c) : (\A j \in SentOn(c) : i <= j) => outbox[i].type = "register"

\* connect_to_coordinator is through with connection c
PastRegistration(c) == c < connections \/ pc # "registering"

\* C35 (as claimed): on every connection exactly one register frame is sent,
\* and it is the first frame sent on that connection.
C35_OneRegisterPerConnection ==
    \A c \in 1..connections :
        PastRegistration(c) =>
            /\ Cardinality(RegistersOn(c)) = 1
            /\ RegisterFirstOn(c)

\* C35 (amended): on every connection at most one register frame is sent and
\* nothing is sent before it; exactly one is sent on every connection on which
\* the worker goes on to receive, and a connection whose register frame could
\* not be sent carries no frame at all.
C35_RegisterFirst ==
    \A c \in 1..connections :
        /\ Cardinality(RegistersOn(c)) <= 1
        /\ RegisterFirstOn(c)
        /\ (c = connections /\ pc \in {"recv"} \cup ExecutingPcs) =>
               Cardinality(RegistersOn(c)) = 1
        /\ (PastRegistration(c) /\ RegistersOn(c) = {}) => SentOn(c) = {}

\* C35 witness: the first connection carried its register frame and then a
\* response, the second connection its own register frame and nothing before.
C35_Witness ==
    /\ connections = 2
    /\ pc = "recv"
    /\ Cardinality(SentOn(1)) >= 2
    /\ Cardinality(RegistersOn(1)) = 1
    /\ Cardinality(RegistersOn(2)) = 1
    /\ SentOn(2) = RegistersOn(2)

\* a connection closed before its register frame could be sent
C35_NoRegisterSent ==
    /\ connections = 1
    /\ pc \in {"backoff", "connecting"}
    /\ SentOn(1) = {}

(***************************************************************************)
(* The end of connect_to_coordinator.                                      *)
(***************************************************************************)

\* C36 (as claimed): one call of connect_to_coordinator sees at most
\* max_reconnect_attempts failed attempts, whether an attempt fails at the
\* connect or at the sending of the registration, and then returns failure.
C36_BoundedFailedAttempts == failures <= max_reconnect_attempts

\* every attempt so far opened the transport and failed at the registration:
\* the call has failed more than once and its counter stands at one
C36_SendFailuresUncounted ==
    /\ pc = "backoff"
    /\ connections = failures
    /\ failures >= 2
    /\ reconnect_attempts = 1
    /\ waits = <<config.retry_delay, NextRetryDelay(config.retry_delay)>>

(***************************************************************************)
(* One transport at a time.                                                *)
(***************************************************************************)

\* where the main task is while connect_to_coordinator is between two attempts
\* or run() between two connections
BetweenConnections == {"initialize", "connecting", "backoff", "give_up", "cooldown"}

DecodeFaults == {"json", "envelope", "no_key", "auth"}

\* the step takes a command of the control plane that came as a plaintext
\* message while encryption is on and a session key is held
PlaintextCommandUnderKey ==
    /\ nframes' = nframes + 1 \/ ncmds' = ncmds + 1
    /\ frame'.wire = "json"
    /\ frame'.envelope = "none"
    /\ frame'.type \in {"pump_command", "status_request", "heartbeat_request"}
    /\ config.encryption_enabled
    /\ shared_key # NoKey

\* C38 (as claimed): a pump_command, status_request or heartbeat_request that
\* arrives as plaintext while a session key is held is not dispatched: the
\* frame ends in a decoding fault, no command is taken in hand, nothing is
\* sent and the engine is left as it was.
C38_PlaintextRefused ==
    [][PlaintextCommandUnderKey =>
           /\ frame'.fault \in DecodeFaults
           /\ ncmds' = ncmds
           /\ pc' = "recv"
           /\ outbox' = outbox
           /\ UNCHANGED engineVars]_vars

\* a plaintext pump_command taken while a session key was held has been
\* executed and answered with a successful result
C38_PlaintextTradeExecuted ==
    /\ frame.type = "pump_command"
    /\ frame.envelope = "none"
    /\ config.encryption_enabled
    /\ shared_key # NoKey
    /\ cur.done
    /\ result.success
    /\ ResponsesTo(cmd.command_id) # {}

\* a plaintext status_request taken while a session key was held went to its
\* handler
C38_PlaintextStatusDispatched ==
    /\ frame.type = "status_request"
    /\ frame.envelope = "none"
    /\ config.encryption_enabled
    /\ shared_key # NoKey
    /\ frame.fault \notin DecodeFaults

(***************************************************************************)
(* The clients under a trade.                                              *)
(***************************************************************************)

\* _execute_real_trade is between the end of the validation and the end of
\* the confirmation polling
InFlightPcs == {"token_info", "calc_amount", "build_tx", "submit", "confirm"}

\* C39 (as claimed): while a trade execution is in flight the gateway client
\* and the HTTP client are not released.
C39_ClientsHeldDuringTrade ==
    pc \in InFlightPcs =>
        /\ resources.solana_client = "open"
        /\ resources.http_client = "open"

\* a transaction was submitted, the clients were closed under the polling, and
\* the trade was reported as failed for want of a confirmation
C39_SubmittedThenUnconfirmable ==
    /\ cur.submitted
    /\ cur.done
    /\ ~is_running
    /\ resources.solana_client = "closed"
    /\ ~result.success
    /\ result.error_message = "confirm_timeout_rpc"
    /\ cur.conn_at_entry = <<TRUE, "open">>

(***************************************************************************)
(* The stopping specification: run() from its start with the registration  *)
(* frames, and the shutdown() task of the signal handler followed await by *)
(* await, the main task moving while it is parked.                         *)
(***************************************************************************)

\* the awaits of shutdown(): websocket.close(), http_client.aclose() and
\* solana_client.close(); trading_engine.shutdown() awaits nothing
ParkedAt == {"close_ws", "close_http", "close_solana"}

\* shutdown() after the step `after`: the next await it parks at (the transport
\* if it is open, then each client that exists), "done" when none is left
NextRelease(after, ws, res) ==
    IF after = "begin" /\ ws = "open" THEN "close_ws"
    ELSE IF after \in {"begin", "close_ws"} /\ res.http_client # "none"
    THEN "close_http"
    ELSE IF after \in {"begin", "close_ws", "close_http"}
            /\ res.solana_client # "none"
    THEN "close_solana"
    ELSE "done"

\* the end of the release sequence: the engine is stopped and the status set
FinishRelease(at, res) ==
    IF at = "done"
    THEN [res EXCEPT !.trading_engine = IF @ = "running" THEN "stopped" ELSE @,
                     !.status = "stopped"]
    ELSE res

\* SIGINT/SIGTERM while run() is under way: the task made by the signal handler
\* runs shutdown() up to its first await, or to its return when the worker is
\* not running
SignalTaskRuns ==
    /\ pc \notin {"start", "stopped"}
    /\ IF is_running
       THEN LET at == NextRelease("begin", websocket, resources)
            IN  /\ is_running' = FALSE
                /\ stopper' = [BeginsRelease(TRUE, stopper) EXCEPT !.task = at]
                /\ resources' = FinishRelease(at, resources)
       ELSE /\ stopper.returned < MaxSignals
            /\ stopper' = [stopper EXCEPT !.returned = @ + 1]
            /\ UNCHANGED <<is_running, resources>>
    /\ UNCHANGED <<config, today, trading_keypair, websocket, reconnect_attempts,
                   max_reconnect_attempts, stats, pc, cmd, result, attempt,
                   retry_delay, outbox, waits, failures, connections, ncmds, cur>>
    /\ UNCHANGED engineVars
    /\ UNCHANGED sessionRest

\* websocket.close() returns to the task
TransportClosed ==
    /\ stopper.task = "close_ws"
    /\ websocket' = "closed"
    /\ LET at == NextRelease("close_ws", "closed", resources)
       IN  /\ stopper' = [stopper EXCEPT !.task = at]
           /\ resources' = FinishRelease(at, resources)
    /\ UNCHANGED <<config, today, trading_keypair, stats, pc, cmd, result, attempt,
                   outbox, ncmds, cur>>
    /\ UNCHANGED engineVars
    /\ UNCHANGED connVars
    /\ UNCHANGED sessionRest

\* http_client.aclose() returns to the task
HttpClientClosed ==
    /\ stopper.task = "close_http"
    /\ LET at == NextRelease("close_http", websocket, resources)
       IN  /\ stopper' = [stopper EXCEPT !.task = at]
           /\ resources' = FinishRelease(
                               at, [resources EXCEPT !.http_client = "closed"])
    /\ UNCHANGED <<config, today, trading_keypair, websocket, stats, pc, cmd,
                   result, attempt, outbox, ncmds, cur>>
    /\ UNCHANGED engineVars
    /\ UNCHANGED connVars
    /\ UNCHANGED sessionRest

\* solana_client.close() returns to the task, which stops the engine, sets the
\* status and ends
GatewayClientClosed ==
    /\ stopper.task = "close_solana"
    /\ stopper' = [stopper EXCEPT !.task = "done"]
    /\ resources' = FinishRelease(
                        "done", [resources EXCEPT !.solana_client = "closed"])
    /\ UNCHANGED <<config, today, trading_keypair, websocket, stats, pc, cmd,
                   result, attempt, outbox, ncmds, cur>>
    /\ UNCHANGED engineVars
    /\ UNCHANGED connVars
    /\ UNCHANGED sessionRest

\* run() has returned: asyncio.run cancels the tasks that are left, and the
\* CancelledError ends shutdown() at the await it is parked at
TasksCancelled ==
    /\ pc = "stopped"
    /\ stopper.task \in ParkedAt
    /\ stopper' = [stopper EXCEPT !.task = "cancelled"]
    /\ UNCHANGED <<config, today, trading_keypair, websocket, stats, pc, cmd,
                   result, attempt, outbox, ncmds, cur>>
    /\ UNCHANGED engineVars
    /\ UNCHANGED connVars
    /\ UNCHANGED sessionVars

NextShutdown ==
    \/ RunStarts
    \/ Initialized
    \/ ConnectSucceeds
    \/ ConnectFails
    \/ RegistrationSent
    \/ RegistrationSendFails
    \/ BackoffDone
    \/ GiveUp
    \/ PeerClose
    \/ MessageHandlerEnds
    \/ CooldownDone
    \/ HandleRegistrationSuccess
    \/ HandleRegistrationError
    \/ SignalTaskRuns
    \/ TransportClosed
    \/ HttpClientClosed
    \/ GatewayClientClosed
    \/ TasksCancelled

SpecShutdown == InitWorker /\ [][NextShutdown]_vars

\* a shutdown() call returns at `if not self.is_running`: the signal handler's
\* task, the handler of a registration_error, or the finally of run() (reached
\* from the loop; the step that leaves initialize() also carries what
\* initialize() built)
ReturnsAtTest ==
    /\ ~is_running
    /\ \/ stopper'.returned # stopper.returned
       \/ Handles("registration_error")
       \/ pc \notin {"stopped", "initialize"} /\ pc' = "stopped"

\* the release sequence is begun at most once
C40_ReleaseOnce == stopper.sequences <= 1

\* a call made while is_running is false changes nothing
C40_IdleCallChangesNothing ==
    [][ReturnsAtTest =>
           /\ UNCHANGED <<is_running, websocket, resources>>
           /\ stopper'.task = stopper.task
           /\ stopper'.sequences = stopper.sequences]_vars

\* run() has not returned while a release sequence that was begun is not
\* completed
C40_RunOutlastsRelease ==
    pc = "stopped" => stopper.task \notin ParkedAt \cup {"cancelled"}

\* C40 (as claimed): whatever the interleaving of the shutdown() calls of the
\* signal handler's task, of the registration_error handler and of the finally
\* of run(), the release sequence is begun at most once, a call made while
\* is_running is false changes nothing, and run() does not return before a
\* release sequence that was begun has completed.
C40_ShutdownIdempotent ==
    /\ []C40_ReleaseOnce
    /\ C40_IdleCallChangesNothing
    /\ []C40_RunOutlastsRelease

\* run() returned while the signal handler's task was parked in its release
\* sequence, which was then cancelled with the clients still open and the
\* status never set to "stopped"
C40_ReleaseAbandoned ==
    /\ pc = "stopped"
    /\ stopper.task = "cancelled"
    /\ stopper.sequences = 1
    /\ websocket = "closed"
    /\ resources.http_client = "open"
    /\ resources.solana_client = "open"
    /\ resources.status # "stopped"

====
